---- MODULE Spec2Model ----
(***************************************************************************)
(* Model of the host relay of the dev-tunnels Rust SDK                     *)
(* (rs/src/connections/host_relay.rs, rs/src/management/http_client.rs).   *)
(*                                                                         *)
(* Part I   - the HostRelay facade: the desired-port map held in a tokio   *)
(*            watch channel, add_port_raw / remove_port split at their     *)
(*            single await (the management HTTP call).                     *)
(* Part II  - client sessions (Server::run_stream): handshake, auth, the   *)
(*            main select loop with port reconciliation and routing.       *)
(* Part III - forwarded-tcpip channels (ServerHandle) and their consumers. *)
(***************************************************************************)
EXTENDS FiniteSets, Integers, Sequences, TLC

\* ---------------------------------------------------------------- bounds
NumCallers == 2
NumSessions == 1
MaxCalls == 3
MaxConns == 2
MaxData == 1

\* data callbacks on the channels of a connection that is being read
MaxChunks == 3

\* inbound WebSocket frames, and polls that find the socket not writable
MaxFrames == 2

MaxPending == 1

\* forwarded connections that arrive while ports are removed
MaxFwdConns == 1

\* chunks fed to a chunked byte reader, their lengths (from 0), and the
\* sizes of the buffers it is read with (from 1)
MaxFeeds == 3

MaxChunkLen == 2

MaxBuf == 2

\* calls of connect() on one HostRelay
MaxConnects == 2

\* client channels of one relay session, and channel events on them
NumChannels == 2

\* capacity taken for the bounded queue between a russh server Handle and
\* its session
HandleCap == 10

\* chunks a client sends and reads a pump makes on its TCP stream in the
\* back-pressure specification: enough to fill both queues
MaxBurst == 11

MaxOps == 4

\* buffers the task that owns a channel write adapter writes
MaxWrites == 2

\* capacity of the per-connection inbound queue, mpsc::channel(10)
QueueCap == 10

\* the port numbers the callers use (those of scenarios S1-S3)
Ports == {8080, 9000}
Callers == 1..NumCallers
Sessions == 1..NumSessions

\* HTTP outcomes of one management request: 0 stands for a transport
\* failure (reqwest error), the others are response status codes.
Statuses == {0, 200, 404, 409, 500}

\* the body of a response: one that decodes as the JSON type the caller
\* asked for, or one that does not (empty, or a field missing)
Bodies == {"json", "bad"}

VARIABLES
    ports,       \* value of the watch channel: port -> sender (channel id)
    version,     \* version of the watch channel (number of send_modify)
    chans,       \* per-port unbounded channels created by add_port_raw
    mgmt,        \* number of create / delete requests issued so far
    call,        \* per caller task: position inside add_port_raw/remove_port
    callsLeft,   \* facade calls that may still be started
    overlapped,  \* history: some call started while another was in flight
    phist,       \* history: per port, the successful calls in order
    sess,        \* per outer channel: the client session task and handler
    conns,       \* every ForwardedPortConnection created so far
    connsLeft,   \* forwarded-tcpip opens the remote clients may still make
    dataLeft,    \* data callbacks the remote clients may still cause
    ws,          \* the WebSocket adapter of a relay connection and its reader
    relay,       \* one relay session: outer SSH session, dispatcher, handle
    fwd,         \* the forward_port_to_tcp loops started by add_port
    rd,          \* a chunked byte reader over a queue, and the task reading it
    host,        \* the facade's connect() calls and what they spawned
    wr           \* a channel write adapter and the task that writes to it

facadeVars == <<ports, version, chans, mgmt, call, callsLeft, overlapped, phist>>
sessVars == <<sess, conns, connsLeft, dataLeft>>
auxVars == <<ws, relay, fwd, rd, host, wr>>
vars == <<ports, version, chans, mgmt, call, callsLeft, overlapped, phist,
          sess, conns, connsLeft, dataLeft, ws, relay, fwd, rd, host, wr>>

\* ------------------------------------------------------------- helpers
Last(s) == s[Len(s)]

Count(s, x) == Cardinality({i \in 1..Len(s) : s[i] = x})

\* HashMap::insert / HashMap::remove on a map modelled as a function
MapInsert(m, k, v) == [x \in (DOMAIN m) \cup {k} |-> IF x = k THEN v ELSE m[x]]

\* a remove that forgets to remove
MapRemove_Noop(m, k) == m

MapRemove(m, k) == [x \in (DOMAIN m) \ {k} |-> m[x]]

EmptyMap == [x \in {} |-> 0]

\* ------------------------------------------------- management client
\* reqwest's StatusCode::is_success: 200..=299
is_success(st) == st >= 200 /\ st <= 299

\* execute_json_simple: a transport failure is ConnectionError; on a
\* success status the body is decoded, which gives Ok or, when it does
\* not decode, ConnectionError again; every other status is
\* ResponseError{status_code}.
execute_json_simple(st, body) ==
    IF st = 0 THEN [ok |-> FALSE, kind |-> "ConnectionError", status_code |-> 0]
    ELSE IF is_success(st)
    THEN IF body = "json"
         THEN [ok |-> TRUE, kind |-> "Ok", status_code |-> st]
         ELSE [ok |-> FALSE, kind |-> "ConnectionError", status_code |-> 0]
    ELSE [ok |-> FALSE, kind |-> "ResponseError", status_code |-> st]

\* execute_no_response: success is Ok(true), 404 is Ok(false), every other
\* status is ResponseError, a transport failure is ConnectionError.
\* a delete helper for which 404 is an error like any other status
execute_no_response_404IsError(st) ==
    IF st = 0 THEN [ok |-> FALSE, val |-> FALSE, kind |-> "ConnectionError", status_code |-> 0]
    ELSE IF is_success(st) THEN [ok |-> TRUE, val |-> TRUE, kind |-> "Ok", status_code |-> st]
    ELSE [ok |-> FALSE, val |-> FALSE, kind |-> "ResponseError", status_code |-> st]

execute_no_response(st) ==
    IF st = 0 THEN [ok |-> FALSE, val |-> FALSE, kind |-> "ConnectionError", status_code |-> 0]
    ELSE IF is_success(st) THEN [ok |-> TRUE, val |-> TRUE, kind |-> "Ok", status_code |-> st]
    ELSE IF st = 404 THEN [ok |-> TRUE, val |-> FALSE, kind |-> "Ok", status_code |-> st]
    ELSE [ok |-> FALSE, val |-> FALSE, kind |-> "ResponseError", status_code |-> st]

\* make_tunnel_request(..).await?: the authorization provider is asked
\* for the header first; when it fails (auth FALSE) the call returns
\* AuthorizationError and no request is issued.
AuthorizationError ==
    [ok |-> FALSE, val |-> FALSE, kind |-> "AuthorizationError", status_code |-> 0]

create_tunnel_port(auth, st, body) ==
    IF ~auth
    THEN [ok |-> FALSE, kind |-> "AuthorizationError", status_code |-> 0]
    ELSE execute_json_simple(st, body)

delete_tunnel_port(auth, st) ==
    IF ~auth THEN AuthorizationError ELSE execute_no_response(st)

delete_tunnel_endpoints(auth, st) ==
    IF ~auth THEN AuthorizationError ELSE execute_no_response(st)

\* ------------------------------------------------------------ results
NoResult == [kind |-> "None", val |-> 0, reason |-> ""]

OkRx(rx) == [kind |-> "Ok", val |-> rx, reason |-> ""]

OkUnit == [kind |-> "Ok", val |-> 0, reason |-> ""]

PortAlreadyExists(n) == [kind |-> "PortAlreadyExists", val |-> n, reason |-> ""]

HttpError(reason) == [kind |-> "HttpError", val |-> 0, reason |-> reason]

OkBool(b) == [kind |-> "Ok", val |-> b, reason |-> ""]

IdleCall == [pc |-> "idle", op |-> "none", port |-> 0, status |-> 0, result |-> NoResult]

\* a call that has not been started or has returned
AtRest(c) == call[c].pc \in {"idle", "done"}

\* a call that is suspended at an await: in the authorization provider
\* ("auth", its request not yet issued) or in the request ("await")
InFlight(c) == call[c].pc \in {"auth", "await"}

\* the locals of the select arm ports.changed() while the task is in it:
\* the snapshot new_ports, the ports it has still to send a tcpip-forward
\* and a cancel-tcpip-forward for, and the request logs as they were when
\* the arm was entered
NoPass == [new_ports |-> EmptyMap, fwd |-> {}, cancel |-> {},
           before |-> [p \in Ports |-> <<>>]]

ClosedSession ==
    [pc |-> "closed", alive |-> FALSE, authed |-> FALSE, res |-> "none", seen |-> 0,
     known_ports |-> EmptyMap, reqs |-> [p \in Ports |-> <<>>],
     cnx_rx |-> <<>>, channel_senders |-> EmptyMap, next_channel |-> 1,
     remote_closed |-> {}, waiting |-> 0, hq |-> <<>>, wire |-> <<>>,
     refused |-> {}, pass |-> NoPass]

\* the messages a Handle puts on the bounded queue to its session: data
\* for a channel (n numbers the reads of the pump), a tcpip-forward ("F")
\* or cancel-tcpip-forward ("C") for a port, a close of a channel
DataMsg(channel, n) == [op |-> "Data", id |-> channel, n |-> n]

RequestMsg(op, port) == [op |-> op, id |-> port, n |-> 0]

CloseMsg(channel) == [op |-> "Close", id |-> channel, n |-> 0]

\* AsyncRWWebSocket::new and the reader that is about to poll it.  The
\* timer is armed for ping_interval ("interval") or ping_timeout
\* ("timeout") and fires when that time has passed; a waker flag says that
\* the source will wake the reader task.  result is what the last
\* poll_read returned, eofs counts the zero-byte reads, wfailed records a
\* failed send of a ping.  moves are the changes of ping_state made so
\* far, unanswered the pings enqueued since the last pong was read.
\* probed says that a ping was flushed after the latest message the
\* adapter read, timed_out that it signalled EOF for the liveness timer,
\* panicked that poll_read entered its arm marked unreachable!.
NewWebSocket ==
    [ping_state |-> "WillPing", timer |-> "interval", fired |-> FALSE,
     timer_waker |-> FALSE, read_waker |-> FALSE, write_waker |-> FALSE,
     leftover |-> FALSE, inbound |-> <<>>, pings |-> 0,
     woken |-> TRUE, result |-> "none", eofs |-> 0, wfailed |-> FALSE,
     framesLeft |-> MaxFrames, pendLeft |-> MaxPending,
     moves |-> {}, unanswered |-> 0, probed |-> FALSE, timed_out |-> FALSE,
     panicked |-> FALSE]

\* the channels the remote clients open on the outer SSH session
Channels == 1..NumChannels

\* the state HostRelay::connect returns in: the outer SSH session is up
\* and its Client handler holds the only sender of the ChannelOp queue rx,
\* the dispatcher task is in its loop with no channels, the caller holds
\* the RelayHandle.  Per channel: whether the handler announced or closed
\* it, the client session task spawned for it by run_stream, the queue of
\* its AsyncRWChannel, what the task has read, and the history of the data
\* the handler got for it; the type its open request named, and whether
\* the task is parked in a read that returned Pending.  A payload is a
\* number, 0 for a payload without bytes.
NewRelay ==
    [outer |-> "up", why |-> "none", rx |-> <<>>,
     disp |-> "loop", join |-> "none", channels |-> {},
     cli |-> [c \in Channels |->
                [opened |-> FALSE, closed |-> FALSE, task |-> "none",
                 incoming |-> <<>>, got |-> <<>>, sent |-> <<>>,
                 ctype |-> "", parked |-> FALSE]],
     handle |-> "held", closeres |-> "none", hres |-> "none",
     disconnects |-> <<>>, opsLeft |-> MaxOps]

\* the errors of connect() that carry no reason
TunnelErr(kind) == [kind |-> kind, val |-> 0, reason |-> ""]

\* Ok(RelayHandle) of the connect() that spawned dispatcher task number j
OkHandle(j) == [kind |-> "RelayHandle", val |-> j, reason |-> ""]

\* what a successful connect() does, in order: the endpoint update
\* request, the WebSocket connect, the outer SSH handshake, the spawn of
\* the dispatcher task
ConnectSteps == <<"update", "websocket", "ssh", "spawn">>

\* a HostRelay on which connect() was not called yet: no call is in
\* progress, no dispatcher task exists.  steps are the steps that the
\* last call has performed, failed the step at which it failed, connected
\* the number of calls that returned a RelayHandle.
NewHost ==
    [pc |-> "idle", steps |-> <<>>, failed |-> "none", result |-> NoResult,
     dispatchers |-> 0, connected |-> 0, connectsLeft |-> MaxConnects,
     unregStatus |-> 0, unreg |-> NoResult]

\* Option<Vec<u8>>
None == [some |-> FALSE, v |-> <<>>]

Some(v) == [some |-> TRUE, v |-> v]

\* A reader over the queue of an open upstream (ForwardedPortReader,
\* AsyncRWChannel): ReadBuffer::default(), nothing queued, and the task
\* that owns the reader about to read.  fed is the concatenation of the
\* chunks sent so far and out that of the bytes its reads returned; waker
\* is the task's waker registered with the queue and woken says that the
\* task is scheduled.
NewReader ==
    [readbuf |-> None, receiver |-> <<>>, open |-> TRUE,
     fed |-> <<>>, out |-> <<>>, result |-> "none",
     waker |-> FALSE, woken |-> TRUE, feedsLeft |-> MaxFeeds]

\* the two channel write adapters; their AsyncWrite code is the same
Adapters == {"AsyncRWChannel", "ForwardedPortWriter"}

\* the write future an adapter is built with, make_*_write_fut(None), and
\* the one poll_write installs for a buffer, make_*_write_fut(Some(..));
\* st is "new" until it is polled, "pending" while Handle::data waits and
\* "done" once it returned
PlaceholderFut == [data |-> 0, st |-> "new"]

make_write_fut(b) == [data |-> b, st |-> "new"]

\* AsyncRWChannel::new / ForwardedPortConnection::into_split, and the
\* task that owns the adapter.  Buffers are numbered in the order the
\* task first writes them.  sent are the buffers handed to the SSH
\* channel, accepted those whose poll_write returned Ready(Ok(len)), cur
\* the buffer of a poll_write that returned Pending and was not finished
\* since; retrying says that the task repeats such a poll_write with the
\* same buffer until it is Ready, flushed_between that it has called
\* poll_flush between two such calls.
\* last describes the latest call: whether it found the flag set, whether
\* it installed a future and which future it polled.  panicked: a future
\* was polled that must not be (the placeholder, or one that returned).
\* read_at_shutdown is the number of bytes the read half had delivered
\* when poll_shutdown was last called, -1 before.
NewWriter ==
    [adapter |-> "AsyncRWChannel", retrying |-> TRUE, flushed_between |-> FALSE,
     is_write_fut_valid |-> FALSE, write_fut |-> PlaceholderFut,
     sent |-> <<>>, accepted |-> <<>>, eof_sent |-> FALSE, cur |-> 0, nextbuf |-> 1,
     result |-> [kind |-> "none", n |-> 0],
     last |-> [op |-> "none", valid_before |-> FALSE, installed |-> FALSE,
               polled |-> "none"],
     read_at_shutdown |-> -1, panicked |-> FALSE]

\* the ids a forward_port_to_tcp task can have: the index of its channel
ForwarderIds == 1..(Cardinality(Ports) + MaxCalls)

\* no port was added with add_port: no forward_port_to_tcp task exists
NoForwarders == [loop |-> <<>>, closed |-> {}]

\* the caller's record of a finished add_port(9000)
AddPortDone ==
    [pc |-> "done", op |-> "add_port", port |-> 9000, status |-> 200, result |-> OkUnit]

\* no channel adapter was built
NoWriter == [NewWriter EXCEPT !.adapter = "none"]

\* a forward_port_to_tcp task waiting in rx.recv()
NewForwarder == [pc |-> "recv", conn |-> 0]

\* ---------------------------------------------------------------- Init
\* the state after HostRelay::new, with the budgets of the environment
InitWith(calls, opens, datas) ==
    /\ ports = EmptyMap
    /\ version = 0
    /\ chans = <<>>
    /\ mgmt = [create |-> 0, delete |-> 0]
    /\ call = [c \in Callers |-> IdleCall]
    /\ callsLeft = calls
    /\ overlapped = FALSE
    /\ phist = [p \in Ports |-> <<>>]
    /\ sess = [s \in Sessions |-> ClosedSession]
    /\ conns = <<>>
    /\ connsLeft = opens
    /\ dataLeft = datas
    /\ ws = NewWebSocket
    /\ relay = NewRelay
    /\ fwd = NoForwarders
    /\ rd = NewReader
    /\ host = NewHost
    /\ wr = NewWriter

Init == InitWith(MaxCalls, MaxConns, MaxData)

\* a client session that has authenticated and whose task has just entered
\* its main loop: known_ports is empty and no version has been seen
AuthedSession ==
    [ClosedSession EXCEPT !.pc = "main", !.alive = TRUE, !.authed = TRUE]

\* the state after one caller has registered both ports with
\* add_port_raw(8080) and add_port_raw(9000) and every client session has
\* then been opened, has authenticated and has entered its main loop
InitRoute ==
    /\ ports = (8080 :> 1) @@ (9000 :> 2)
    /\ version = 2
    /\ chans = <<[port |-> 8080, q |-> <<>>, rx |-> TRUE],
                 [port |-> 9000, q |-> <<>>, rx |-> TRUE]>>
    /\ mgmt = [create |-> 2, delete |-> 0]
    /\ call = [c \in Callers |->
                 IF c = 1
                 THEN [pc |-> "done", op |-> "add", port |-> 9000, status |-> 200,
                       result |-> OkRx(2)]
                 ELSE IdleCall]
    /\ callsLeft = MaxCalls - 2
    /\ overlapped = FALSE
    /\ phist = (8080 :> <<[op |-> "add", rx |-> 1, ver |-> 1]>>)
               @@ (9000 :> <<[op |-> "add", rx |-> 2, ver |-> 2]>>)
    /\ sess = [s \in Sessions |-> AuthedSession]
    /\ conns = <<>>
    /\ connsLeft = MaxConns
    /\ dataLeft = MaxData
    /\ ws = NewWebSocket
    /\ relay = NewRelay
    /\ fwd = NoForwarders
    /\ rd = NewReader
    /\ host = NewHost
    /\ wr = NewWriter

\* a client session in its main loop that has reconciled with both ports
\* and has accepted one forwarded-tcpip channel
ServingSession ==
    [AuthedSession EXCEPT !.seen = 2,
                          !.known_ports = (8080 :> 1) @@ (9000 :> 2),
                          !.reqs = [p \in Ports |-> <<"F">>],
                          !.channel_senders = (1 :> 1),
                          !.next_channel = 2]

\* the state of InitRoute after session 1 has reconciled, its client has
\* opened a forwarded-tcpip channel for port 8080 and the holder of the
\* port's receiver has taken the connection
InitData ==
    /\ InitRoute!1 /\ InitRoute!2 /\ InitRoute!3 /\ InitRoute!4 /\ InitRoute!5
    /\ InitRoute!6 /\ InitRoute!7 /\ InitRoute!8
    /\ sess = [s \in Sessions |-> IF s = 1 THEN ServingSession ELSE AuthedSession]
    /\ conns = <<[sess |-> 1, channel |-> 1, port |-> 8080, inq |-> <<>>,
                  wbuf |-> <<>>, got |-> <<>>, cb |-> <<>>, via |-> 1, reads |-> 0,
                  st |-> "received"]>>
    /\ connsLeft = MaxConns - 1
    /\ dataLeft = MaxChunks
    /\ ws = NewWebSocket
    /\ relay = NewRelay
    /\ fwd = NoForwarders
    /\ rd = NewReader
    /\ host = NewHost
    /\ wr = NewWriter

\* the state of InitData when the connection was handed to a pump task
\* and the client and the local TCP server are about to send a burst
InitBackpressure ==
    /\ InitRoute!1 /\ InitRoute!2 /\ InitRoute!3 /\ InitRoute!4
    /\ call = [c \in Callers |-> IF c = 1 THEN AddPortDone ELSE IdleCall]
    /\ InitRoute!6 /\ InitRoute!7 /\ InitRoute!8
    /\ sess = [s \in Sessions |-> IF s = 1 THEN ServingSession ELSE AuthedSession]
    /\ conns = <<[sess |-> 1, channel |-> 1, port |-> 8080, inq |-> <<>>,
                  wbuf |-> <<>>, got |-> <<>>, cb |-> <<>>, via |-> 1, reads |-> 0,
                  st |-> "pumping"]>>
    /\ connsLeft = 0
    /\ dataLeft = MaxBurst
    /\ ws = NewWebSocket
    /\ relay = NewRelay
    /\ fwd = [loop |-> <<NewForwarder, NewForwarder>>, closed |-> {}]
    /\ rd = NewReader
    /\ host = NewHost
    /\ wr = NewWriter

\* the state of InitRoute before any client has connected
InitAuth ==
    /\ InitRoute!1 /\ InitRoute!2 /\ InitRoute!3 /\ InitRoute!4 /\ InitRoute!5
    /\ InitRoute!6 /\ InitRoute!7 /\ InitRoute!8
    /\ sess = [s \in Sessions |-> ClosedSession]
    /\ conns = <<>>
    /\ connsLeft = MaxFwdConns
    /\ dataLeft = MaxData
    /\ ws = NewWebSocket
    /\ relay = NewRelay
    /\ fwd = NoForwarders
    /\ rd = NewReader
    /\ host = NewHost
    /\ wr = NewWriter

\* the state after one caller has registered port 8080 with add_port_raw
\* and every client session has then been opened, has authenticated and
\* has entered its main loop
InitSwallow ==
    /\ ports = (8080 :> 1)
    /\ version = 1
    /\ chans = <<[port |-> 8080, q |-> <<>>, rx |-> TRUE]>>
    /\ mgmt = [create |-> 1, delete |-> 0]
    /\ call = [c \in Callers |->
                 IF c = 1
                 THEN [pc |-> "done", op |-> "add", port |-> 8080, status |-> 200,
                       result |-> OkRx(1)]
                 ELSE IdleCall]
    /\ callsLeft = MaxCalls - 1
    /\ overlapped = FALSE
    /\ phist = (8080 :> <<[op |-> "add", rx |-> 1, ver |-> 1]>>) @@ (9000 :> <<>>)
    /\ sess = [s \in Sessions |-> AuthedSession]
    /\ conns = <<>>
    /\ connsLeft = MaxConns
    /\ dataLeft = MaxData
    /\ ws = NewWebSocket
    /\ relay = NewRelay
    /\ fwd = NoForwarders
    /\ rd = NewReader
    /\ host = NewHost
    /\ wr = NewWriter

\* the state after HostRelay::new with one channel adapter built, of
\* either kind and owned by a task of either habit
InitWrite ==
    /\ ports = EmptyMap
    /\ version = 0
    /\ chans = <<>>
    /\ mgmt = [create |-> 0, delete |-> 0]
    /\ call = [c \in Callers |-> IdleCall]
    /\ callsLeft = MaxCalls
    /\ overlapped = FALSE
    /\ phist = [p \in Ports |-> <<>>]
    /\ sess = [s \in Sessions |-> ClosedSession]
    /\ conns = <<>>
    /\ connsLeft = MaxConns
    /\ dataLeft = MaxData
    /\ ws = NewWebSocket
    /\ relay = NewRelay
    /\ fwd = NoForwarders
    /\ rd = NewReader
    /\ host = NewHost
    /\ wr \in {[NewWriter EXCEPT !.adapter = a, !.retrying = r] :
                 a \in Adapters, r \in BOOLEAN}

\* a client session in its main loop that has reconciled with both ports
ReconciledSession ==
    [AuthedSession EXCEPT !.seen = 2,
                          !.known_ports = (8080 :> 1) @@ (9000 :> 2),
                          !.reqs = [p \in Ports |-> <<"F">>]]

\* the state of InitRoute when both ports were registered with add_port,
\* so that each receiver is owned by a forward_port_to_tcp task, and
\* every client session has reconciled
InitPump ==
    /\ InitRoute!1 /\ InitRoute!2 /\ InitRoute!3 /\ InitRoute!4
    /\ call = [c \in Callers |-> IF c = 1 THEN AddPortDone ELSE IdleCall]
    /\ InitRoute!6 /\ InitRoute!7 /\ InitRoute!8
    /\ sess = [s \in Sessions |-> ReconciledSession]
    /\ conns = <<>>
    /\ connsLeft = MaxConns
    /\ dataLeft = MaxData
    /\ ws = NewWebSocket
    /\ relay = NewRelay
    /\ fwd = [loop |-> <<NewForwarder, NewForwarder>>, closed |-> {}]
    /\ rd = NewReader
    /\ host = NewHost
    /\ wr = NewWriter

\* the state of InitPump after the client of session 1 opened channel 1
\* for port 8080, the forwarder dialled the local server and spawned the
\* pump, the client sent a burst of QueueCap chunks that the pump has
\* not taken yet, and the pump sent HandleCap - 1 reads of the local
\* server that the session, busy with the callbacks of the burst, has
\* not written yet: the inbound queue of the connection is full and the
\* Handle queue has room for one message.  The requests of the session's
\* first pass were written to its client.  The client has more to send
\* and a further channel to open, and the facade has a call to come.
InitBurst ==
    LET sent == HandleCap - 1
        chunks == [i \in 1..QueueCap |-> <<1, 1, MaxBurst + 1 - i>>]
        session == [ServingSession EXCEPT
                       !.wire = <<RequestMsg("F", 8080), RequestMsg("F", 9000)>>,
                       !.hq = [i \in 1..sent |-> DataMsg(1, i)]]
    IN
    /\ InitRoute!1 /\ InitRoute!2 /\ InitRoute!3 /\ InitRoute!4
    /\ call = [c \in Callers |-> IF c = 1 THEN AddPortDone ELSE IdleCall]
    /\ callsLeft = MaxCalls - 2
    /\ InitRoute!7 /\ InitRoute!8
    /\ sess = [s \in Sessions |-> IF s = 1 THEN session ELSE ReconciledSession]
    /\ conns = <<[sess |-> 1, channel |-> 1, port |-> 8080, inq |-> chunks,
                  wbuf |-> <<>>, got |-> <<>>, cb |-> chunks, via |-> 1,
                  reads |-> sent, st |-> "pumping"]>>
    /\ connsLeft = MaxFwdConns
    /\ dataLeft = MaxBurst - QueueCap
    /\ ws = NewWebSocket
    /\ relay = NewRelay
    /\ fwd = [loop |-> <<NewForwarder, NewForwarder>>, closed |-> {}]
    /\ rd = NewReader
    /\ host = NewHost
    /\ wr = NewWriter

\* the state after both ports were registered and a first connect()
\* returned a RelayHandle; no client has connected yet
InitReconnect ==
    /\ InitRoute!1 /\ InitRoute!2 /\ InitRoute!3 /\ InitRoute!4 /\ InitRoute!5
    /\ InitRoute!6 /\ InitRoute!7 /\ InitRoute!8
    /\ sess = [s \in Sessions |-> ClosedSession]
    /\ conns = <<>>
    /\ connsLeft = MaxConns
    /\ dataLeft = MaxData
    /\ ws = NewWebSocket
    /\ relay = NewRelay
    /\ fwd = NoForwarders
    /\ rd = NewReader
    /\ host = [NewHost EXCEPT !.steps = ConnectSteps,
                              !.result = OkHandle(1), !.dispatchers = 1,
                              !.connected = 1, !.connectsLeft = MaxConnects - 1]
    /\ wr = NewWriter

\* ============================================================ Part I
\* the duplicate check of add_port_raw: ports_tx.borrow().get(&n).is_some()
HasPort_Never(m, n) == FALSE

HasPort(m, n) == n \in DOMAIN m

\* the match on the create_tunnel_port result: Ok and ResponseError with
\* status 409 go on, every other error is returned
CreateAccepted_All(r) == r.ok \/ r.kind = "ResponseError"

CreateAccepted_No409(r) == r.ok

CreateAccepted(r) == r.ok \/ (r.kind = "ResponseError" /\ r.status_code = 409)

\* add_port_raw up to the first await of its create_tunnel_port: the
\* duplicate check, then make_request waits for the authorization
\* provider; no request has been issued yet.
AddPortRawCall(c, n) ==
    /\ AtRest(c)
    /\ callsLeft > 0
    /\ callsLeft' = callsLeft - 1
    /\ overlapped' = (overlapped \/ \E d \in Callers \ {c} : InFlight(d))
    /\ call' = [call EXCEPT ![c] =
                  IF HasPort(ports, n)
                  THEN [pc |-> "done", op |-> "add", port |-> n, status |-> 0,
                        result |-> PortAlreadyExists(n)]
                  ELSE [pc |-> "auth", op |-> "add", port |-> n, status |-> 0,
                        result |-> NoResult]]
    /\ UNCHANGED <<auxVars, ports, version, chans, phist, mgmt, sessVars>>

\* get_authorization().await? inside the create_tunnel_port of
\* add_port_raw returns: with a token (auth) the PUT is issued and
\* awaited, with an error create_tunnel_port returns it, no request is
\* issued and the match turns it into HttpError.
AddPortRawAuth(c, auth) ==
    /\ call[c].pc = "auth"
    /\ call[c].op = "add"
    /\ IF auth \/ CreateAccepted(create_tunnel_port(auth, 0, "bad"))
       THEN /\ call' = [call EXCEPT ![c].pc = "await"]
            /\ mgmt' = [mgmt EXCEPT !.create = @ + 1]
       ELSE /\ call' = [call EXCEPT ![c].pc = "done",
                                    ![c].result = HttpError("failed to add port to tunnel")]
            /\ mgmt' = mgmt
    /\ UNCHANGED <<auxVars, ports, version, chans, phist, callsLeft, overlapped, sessVars>>

\* add_port_raw after its await: the response is matched, a fresh
\* unbounded channel is made and its sender inserted with send_modify.
AddPortRawResume(c, st, body) ==
    /\ call[c].pc = "await"
    /\ call[c].op = "add"
    /\ LET n == call[c].port
           r == create_tunnel_port(TRUE, st, body)
           tx == Len(chans) + 1
       IN IF CreateAccepted(r)
          THEN /\ chans' = Append(chans, [port |-> n, q |-> <<>>, rx |-> TRUE])
               /\ ports' = MapInsert(ports, n, tx)
               /\ version' = version + 1
               /\ call' = [call EXCEPT ![c].pc = "done", ![c].status = st,
                                       ![c].result = OkRx(tx)]
               /\ phist' = [phist EXCEPT ![n] =
                              Append(@, [op |-> "add", rx |-> tx, ver |-> version + 1])]
          ELSE /\ call' = [call EXCEPT ![c].pc = "done", ![c].status = st,
                                       ![c].result = HttpError("failed to add port to tunnel")]
               /\ UNCHANGED <<ports, version, chans, phist>>
    /\ UNCHANGED <<auxVars, mgmt, callsLeft, overlapped, sessVars>>

\* add_port up to the first await inside its add_port_raw(port_to_add):
\* the duplicate check, then the wait for the authorization provider
AddPortCall(c, n) ==
    /\ AtRest(c)
    /\ callsLeft > 0
    /\ callsLeft' = callsLeft - 1
    /\ overlapped' = (overlapped \/ \E d \in Callers \ {c} : InFlight(d))
    /\ call' = [call EXCEPT ![c] =
                  IF HasPort(ports, n)
                  THEN [pc |-> "done", op |-> "add_port", port |-> n, status |-> 0,
                        result |-> PortAlreadyExists(n)]
                  ELSE [pc |-> "auth", op |-> "add_port", port |-> n, status |-> 0,
                        result |-> NoResult]]
    /\ UNCHANGED <<auxVars, ports, version, chans, phist, mgmt, sessVars>>

\* the authorization provider answers the add_port_raw of an add_port:
\* the PUT is issued, or the error comes back through `.await?`
AddPortAuth(c, auth) ==
    /\ call[c].pc = "auth"
    /\ call[c].op = "add_port"
    /\ IF auth \/ CreateAccepted(create_tunnel_port(auth, 0, "bad"))
       THEN /\ call' = [call EXCEPT ![c].pc = "await"]
            /\ mgmt' = [mgmt EXCEPT !.create = @ + 1]
       ELSE /\ call' = [call EXCEPT ![c].pc = "done",
                                    ![c].result = HttpError("failed to add port to tunnel")]
            /\ mgmt' = mgmt
    /\ UNCHANGED <<auxVars, ports, version, chans, phist, callsLeft, overlapped, sessVars>>

\* add_port after the await: what add_port_raw does, and with the
\* receiver it returned a forward_port_to_tcp task is spawned; an error
\* of add_port_raw is returned as it is and no task is spawned.
AddPortResume(c, st, body) ==
    /\ call[c].pc = "await"
    /\ call[c].op = "add_port"
    /\ LET n == call[c].port
           r == create_tunnel_port(TRUE, st, body)
           tx == Len(chans) + 1
       IN IF CreateAccepted(r)
          THEN /\ chans' = Append(chans, [port |-> n, q |-> <<>>, rx |-> TRUE])
               /\ ports' = MapInsert(ports, n, tx)
               /\ version' = version + 1
               /\ call' = [call EXCEPT ![c].pc = "done", ![c].status = st,
                                       ![c].result = OkUnit]
               /\ phist' = [phist EXCEPT ![n] =
                              Append(@, [op |-> "add", rx |-> tx, ver |-> version + 1])]
               /\ fwd' = [fwd EXCEPT !.loop = (tx :> NewForwarder) @@ @]
          ELSE /\ call' = [call EXCEPT ![c].pc = "done", ![c].status = st,
                                       ![c].result = HttpError("failed to add port to tunnel")]
               /\ UNCHANGED <<ports, version, chans, phist, fwd>>
    /\ UNCHANGED <<ws, relay, rd, host, wr, mgmt, callsLeft, overlapped, sessVars>>

\* remove_port up to the first await of its delete_tunnel_port: the wait
\* for the authorization provider; no request has been issued yet.
RemovePortCall(c, n) ==
    /\ AtRest(c)
    /\ callsLeft > 0
    /\ callsLeft' = callsLeft - 1
    /\ overlapped' = (overlapped \/ \E d \in Callers \ {c} : InFlight(d))
    /\ call' = [call EXCEPT ![c] = [pc |-> "auth", op |-> "remove", port |-> n,
                                     status |-> 0, result |-> NoResult]]
    /\ UNCHANGED <<auxVars, ports, version, chans, phist, mgmt, sessVars>>

\* get_authorization().await? inside the delete_tunnel_port of
\* remove_port returns: with a token the DELETE is issued and awaited,
\* with an error no request is issued and map_err wraps the error.
RemovePortAuth(c, auth) ==
    /\ call[c].pc = "auth"
    /\ call[c].op = "remove"
    /\ IF auth \/ delete_tunnel_port(auth, 0).ok
       THEN /\ call' = [call EXCEPT ![c].pc = "await"]
            /\ mgmt' = [mgmt EXCEPT !.delete = @ + 1]
       ELSE /\ call' = [call EXCEPT ![c].pc = "done",
                                    ![c].result = HttpError("failed to remove port from tunnel")]
            /\ mgmt' = mgmt
    /\ UNCHANGED <<auxVars, ports, version, chans, phist, callsLeft, overlapped, sessVars>>

\* remove_port after its await: an error is mapped to HttpError, otherwise
\* the entry is removed with send_modify (which always bumps the version).
RemovePortResume(c, st) ==
    /\ call[c].pc = "await"
    /\ call[c].op = "remove"
    /\ LET n == call[c].port
           r == delete_tunnel_port(TRUE, st)
       IN IF r.ok
          THEN /\ ports' = MapRemove(ports, n)
               /\ version' = version + 1
               /\ call' = [call EXCEPT ![c].pc = "done", ![c].status = st,
                                       ![c].result = OkUnit]
               /\ phist' = [phist EXCEPT ![n] =
                              Append(@, [op |-> "remove", rx |-> 0, ver |-> version + 1])]
          ELSE /\ call' = [call EXCEPT ![c].pc = "done", ![c].status = st,
                                       ![c].result = HttpError("failed to remove port from tunnel")]
               /\ UNCHANGED <<ports, version, phist>>
    /\ UNCHANGED <<auxVars, chans, mgmt, callsLeft, overlapped, sessVars>>

\* =========================================================== Part II
\* Handle::forward_tcpip hands the request to the inner SSH session; the
\* hand-over fails only when that session is gone, and the caller drops
\* the error (.ok()).  log is the per-port request log of the session.
forward_tcpip_Twice(alive, log) == IF alive THEN Append(Append(log, "F"), "F") ELSE log

forward_tcpip(alive, log) == IF alive THEN Append(log, "F") ELSE log

cancel_forward_tcpip(alive, log) == IF alive THEN Append(log, "C") ELSE log

\* ports for which the last request the task handed to the inner session
\* was a forward
ForwardRequested(s) ==
    {p \in Ports : sess[s].reqs[p] # <<>> /\ Last(sess[s].reqs[p]) = "F"}

\* ports for which the client has accepted a forward that is still in
\* force: every request handed over for the port was written to the
\* client, the last of them is a forward, and it did not come back as Err
Accepted(s) ==
    LET written(p) ==
            SelectSeq(sess[s].wire, LAMBDA m : m.op \in {"F", "C"} /\ m.id = p)
    IN {p \in ForwardRequested(s) :
           /\ Len(written(p)) = Len(sess[s].reqs[p])
           /\ p \notin sess[s].refused}

\* the task is inside its select arm ports.changed(), between two
\* requests
InPass(s) == sess[s].pc = "pass"

InMainLoop(s) == sess[s].pc \in {"main", "pass"} /\ sess[s].alive

\* the task of a live session is at its select!, no pass under way
AtSelect(s) == sess[s].pc = "main" /\ sess[s].alive

\* a receiver made with ports_tx.subscribe(): it has seen the current
\* version
ports_rx_clone_Subscribe == version

\* the version that a clone of self.ports_rx has seen: the one self.ports_rx
\* has seen, which is the initial one, since the facade never waits on it
\* nor marks a version seen
ports_rx_clone == 0

\* dispatcher, ChannelOp::Open(id): the adapter is built and run_stream
\* spawns the client session task with a clone of the facade's watch
\* receiver, whose seen version is the initial one.
ChannelOpOpen(s) ==
    /\ sess[s].pc = "closed"
    /\ sess' = [sess EXCEPT ![s].pc = "handshake", ![s].alive = TRUE,
                            ![s].seen = ports_rx_clone]
    /\ UNCHANGED <<auxVars, facadeVars, conns, connsLeft, dataLeft>>

\* russh::server::run_stream returned Err: the task returns the error.
RunStreamHandshakeErr(s) ==
    /\ sess[s].pc = "handshake"
    /\ sess' = [sess EXCEPT ![s].pc = "ended", ![s].alive = FALSE, ![s].res = "Err"]
    /\ UNCHANGED <<auxVars, facadeVars, conns, connsLeft, dataLeft>>

\* russh::server::run_stream returned Ok: the task awaits authed_tx.
RunStreamHandshakeOk(s) ==
    /\ sess[s].pc = "handshake"
    /\ sess' = [sess EXCEPT ![s].pc = "wait_auth"]
    /\ UNCHANGED <<auxVars, facadeVars, conns, connsLeft, dataLeft>>

\* ServerHandle::auth_succeeded: the oneshot authed_tx fires (once).
auth_succeeded(s) ==
    /\ sess[s].pc = "wait_auth"
    /\ sess[s].alive
    /\ ~sess[s].authed
    /\ sess' = [sess EXCEPT ![s].authed = TRUE]
    /\ UNCHANGED <<auxVars, facadeVars, conns, connsLeft, dataLeft>>

\* the inner SSH session of a client ends (client left, outer channel
\* closed, protocol error): its handler, and with it authed_tx, cnx_tx and
\* channel_senders, are dropped.
SessionEnds(s) ==
    /\ sess[s].pc \in {"wait_auth", "main", "pass"}
    /\ sess[s].alive
    /\ sess' = [sess EXCEPT ![s].alive = FALSE, ![s].channel_senders = EmptyMap]
    /\ UNCHANGED <<auxVars, facadeVars, conns, connsLeft, dataLeft>>

\* authed_tx.await is Err: the session closed before authentication.
ClosedBeforeAuth(s) ==
    /\ sess[s].pc = "wait_auth"
    /\ ~sess[s].authed
    /\ ~sess[s].alive
    /\ sess' = [sess EXCEPT ![s].pc = "ended", ![s].res = "Ok"]
    /\ UNCHANGED <<auxVars, facadeVars, conns, connsLeft, dataLeft>>

\* a task that enters its loop without waiting for the signal
EnterMainLoop_NoWait(s) ==
    /\ sess[s].pc = "wait_auth"
    /\ sess' = [sess EXCEPT ![s].pc = "main", ![s].known_ports = EmptyMap]
    /\ UNCHANGED <<auxVars, facadeVars, conns, connsLeft, dataLeft>>

\* authed_tx.await is Ok: known_ports starts empty, the loop is entered.
EnterMainLoop(s) ==
    /\ sess[s].pc = "wait_auth"
    /\ sess[s].authed
    /\ sess' = [sess EXCEPT ![s].pc = "main", ![s].known_ports = EmptyMap]
    /\ UNCHANGED <<auxVars, facadeVars, conns, connsLeft, dataLeft>>

\* the task returns from the main loop: its locals (the watch receiver,
\* known_ports, server_connection_rx) are dropped, and with
\* server_connection_rx the connections still queued in it.
ReturnFromLoop(s, r) ==
    /\ sess' = [sess EXCEPT ![s].pc = "ended", ![s].res = r, ![s].seen = 0,
                            ![s].known_ports = EmptyMap, ![s].cnx_rx = <<>>]
    /\ conns' = [k \in 1..Len(conns) |->
                   IF conns[k].sess = s /\ conns[k].st = "cnx_rx"
                   THEN [conns[k] EXCEPT !.st = "dropped"]
                   ELSE conns[k]]
    /\ UNCHANGED <<auxVars, facadeVars, connsLeft, dataLeft>>

\* select arm `r = &mut session => return r`
SessionDone(s, r) ==
    /\ sess[s].pc = "main"
    /\ ~sess[s].alive
    /\ ReturnFromLoop(s, r)

\* select arm server_connection_rx.recv() => None: every cnx_tx is gone
\* and the queue is drained.
NoMoreConnections(s) ==
    /\ sess[s].pc = "main"
    /\ ~sess[s].alive
    /\ sess[s].cnx_rx = <<>>
    /\ ReturnFromLoop(s, "Ok")

\* the reconciliation pass of the select arm ports.changed(): the ports
\* it sends a request for after diffing new_ports against known_ports,
\* the forwards first.
ReconcileRequests(known, new_ports) ==
    [fwd |-> (DOMAIN new_ports) \ (DOMAIN known),
     cancel |-> (DOMAIN known) \ (DOMAIN new_ports)]

\* a pass that keeps the sender it already has for a port it knows
AdoptPorts_KeepOld(known, new_ports) ==
    [p \in DOMAIN new_ports |-> IF p \in DOMAIN known THEN known[p] ELSE new_ports[p]]

\* a pass that adds the new entries and forgets none
AdoptPorts_NoForget(known, new_ports) ==
    [p \in DOMAIN known \cup DOMAIN new_ports |->
        IF p \in DOMAIN new_ports THEN new_ports[p] ELSE known[p]]

\* what the pass adopts as known_ports: known_ports = new_ports
AdoptPorts(known, new_ports) == new_ports

\* select arm ports.changed(): ready when the watch version differs from
\* the one this receiver has seen; marks it seen and snapshots the map.
\* With nothing to request the snapshot is adopted at once; otherwise the
\* task goes on to its first request.
Reconcile(s) ==
    /\ sess[s].pc = "main"
    /\ sess[s].seen # version
    /\ LET new_ports == ports
           known == sess[s].known_ports
           todo == ReconcileRequests(known, new_ports)
       IN sess' = IF todo.fwd \cup todo.cancel = {}
                  THEN [sess EXCEPT ![s].seen = version,
                                    ![s].known_ports = AdoptPorts(known, new_ports)]
                  ELSE [sess EXCEPT ![s].seen = version,
                                    ![s].pc = "pass",
                                    ![s].pass = [new_ports |-> new_ports,
                                                 fwd |-> todo.fwd,
                                                 cancel |-> todo.cancel,
                                                 before |-> sess[s].reqs]]
    /\ UNCHANGED <<auxVars, facadeVars, conns, connsLeft, dataLeft>>

\* the session record after the request of a pass for port p has
\* returned, ok saying that the request did not come back as Err: the
\* request is logged and queued when the inner session is there, p is
\* remembered as refused when the request failed, and after the last
\* request of the pass known_ports = new_ports and the task is back at
\* its select.
AfterRequest(sn, p, ok, adopt) ==
    LET op == IF p \in sn.pass.fwd THEN "F" ELSE "C"
        rest == [sn.pass EXCEPT !.fwd = @ \ {p}, !.cancel = @ \ {p}]
        last == rest.fwd \cup rest.cancel = {}
    IN [sn EXCEPT
          !.reqs[p] = IF op = "F" THEN forward_tcpip(sn.alive, @)
                      ELSE cancel_forward_tcpip(sn.alive, @),
          !.hq = IF sn.alive THEN Append(@, RequestMsg(op, p)) ELSE @,
          !.refused = IF ok /\ sn.alive THEN @ \ {p} ELSE @ \cup {p},
          !.pass = IF last \/ ~adopt THEN NoPass ELSE rest,
          !.known_ports = IF last /\ adopt THEN AdoptPorts(sn.known_ports, sn.pass.new_ports)
                          ELSE @,
          !.pc = IF last \/ ~adopt THEN "main" ELSE "pass"]

\* a pass that gives up at the first request that fails: nothing is
\* adopted
ReconcileSend_Abort(s, p, ok) ==
    /\ InPass(s)
    /\ \/ p \in sess[s].pass.fwd
       \/ sess[s].pass.fwd = {} /\ p \in sess[s].pass.cancel
    /\ sess[s].alive => Len(sess[s].hq) < HandleCap
    /\ ~sess[s].alive => ok
    /\ sess' = [sess EXCEPT ![s] = AfterRequest(sess[s], p, ok, ok /\ sess[s].alive)]
    /\ UNCHANGED <<auxVars, facadeVars, conns, connsLeft, dataLeft>>

\* session.handle().forward_tcpip(..).await.ok() for a port of the first
\* loop, or cancel_forward_tcpip(..).await.ok() for a port of the second
\* once the first is through (a HashMap yields its keys in any order).
\* The request waits for room on the bounded queue to the inner session;
\* it fails when that session is gone, and ok FALSE stands for a request
\* that was handed over and came back as Err.  Either result is discarded
\* and the pass goes on.
ReconcileSend(s, p, ok) ==
    /\ InPass(s)
    /\ \/ p \in sess[s].pass.fwd
       \/ sess[s].pass.fwd = {} /\ p \in sess[s].pass.cancel
    /\ sess[s].alive => Len(sess[s].hq) < HandleCap
    /\ ~sess[s].alive => ok
    /\ sess' = [sess EXCEPT ![s] = AfterRequest(sess[s], p, ok, TRUE)]
    /\ UNCHANGED <<auxVars, facadeVars, conns, connsLeft, dataLeft>>

\* a lookup that takes any known sender
RouteTarget_Any(known, p) ==
    IF DOMAIN known # {} THEN known[CHOOSE q \in DOMAIN known : TRUE] ELSE 0

\* the sender that receives a connection for port p, 0 when none:
\* known_ports.get(&cnx.port)
RouteTarget(known, p) == IF p \in DOMAIN known THEN known[p] ELSE 0

\* select arm server_connection_rx.recv() => Some(cnx): the connection is
\* sent on the sender known for its port; a send error (receiver dropped)
\* is ignored, and a connection that is not sent is dropped.
RouteConnection(s) ==
    /\ sess[s].pc = "main"
    /\ sess[s].cnx_rx # <<>>
    /\ LET k == Head(sess[s].cnx_rx)
           tx == RouteTarget(sess[s].known_ports, conns[k].port)
       IN /\ sess' = [sess EXCEPT ![s].cnx_rx = Tail(@)]
          /\ IF tx # 0 /\ chans[tx].rx
             THEN /\ chans' = [chans EXCEPT ![tx].q = Append(@, k)]
                  /\ conns' = [conns EXCEPT ![k].st = "queued", ![k].via = tx]
             ELSE /\ chans' = chans
                  /\ conns' = [conns EXCEPT ![k].st = "dropped"]
    /\ UNCHANGED <<auxVars, ports, version, mgmt, call, callsLeft, overlapped, phist,
                   connsLeft, dataLeft>>

\* ========================================================== Part III
\* the receiver half of a connection's inbound queue still exists
ReceiverAlive(k) == conns[k].st # "dropped"

\* ServerHandle::channel_open_forwarded_tcpip: a bounded queue is made,
\* the connection is sent on cnx_tx, and when that worked the queue's
\* sender is remembered under the channel id; the channel is accepted.
channel_open_forwarded_tcpip(s, port_to_connect) ==
    /\ sess[s].alive
    /\ sess[s].authed
    /\ sess[s].waiting = 0
    /\ connsLeft > 0
    /\ connsLeft' = connsLeft - 1
    /\ LET channel == sess[s].next_channel
           k == Len(conns) + 1
           txd_ok == sess[s].pc # "ended"
       IN /\ conns' = Append(conns,
                 [sess |-> s, channel |-> channel, port |-> port_to_connect,
                  inq |-> <<>>, wbuf |-> <<>>, got |-> <<>>, cb |-> <<>>,
                  via |-> 0,
                  reads |-> 0,
                  st |-> IF txd_ok THEN "cnx_rx" ELSE "dropped"])
          /\ sess' = [sess EXCEPT
                        ![s].next_channel = @ + 1,
                        ![s].cnx_rx = IF txd_ok THEN Append(@, k) ELSE @,
                        ![s].channel_senders =
                            IF txd_ok THEN MapInsert(@, channel, k) ELSE @]
    /\ UNCHANGED <<auxVars, facadeVars, dataLeft>>

\* the connection whose queue gets the data of a channel, 0 when none
DataTarget(senders, channel) == IF channel \in DOMAIN senders THEN senders[channel] ELSE 0

\* a send that puts the chunk in front of the queued ones
mpsc_send_Front(q, v) == <<v>> \o q

\* sender.send(data_vec): the chunk joins the end of the bounded queue
mpsc_send(q, v) == Append(q, v)

\* ServerHandle::data: the chunk is sent into the queue remembered for the
\* channel; when the receiver is gone the sender is forgotten.  While the
\* queue is full the callback waits (waiting is its channel) and holds
\* the session, which runs no other callback and takes nothing from its
\* Handle queue until the callback has returned.  A chunk is tagged with the session, the
\* channel and the number of callbacks still to come (unique per chunk);
\* cb is the history of the callbacks that found a sender for the channel.
data(s, channel) ==
    /\ sess[s].alive
    /\ sess[s].authed
    /\ dataLeft > 0
    /\ channel < sess[s].next_channel
    /\ channel \notin sess[s].remote_closed
    /\ sess[s].waiting \in {0, channel}
    /\ LET k == DataTarget(sess[s].channel_senders, channel)
           chunk == <<s, channel, dataLeft>>
       IN IF k = 0
          THEN /\ dataLeft' = dataLeft - 1
               /\ UNCHANGED <<sess, conns>>
          ELSE IF ReceiverAlive(k) /\ Len(conns[k].inq) >= QueueCap
          THEN /\ sess[s].waiting = 0
               /\ sess' = [sess EXCEPT ![s].waiting = channel]
               /\ UNCHANGED <<conns, dataLeft>>
          ELSE IF ReceiverAlive(k)
          THEN /\ conns' = [conns EXCEPT ![k].inq = mpsc_send(@, chunk),
                                         ![k].cb = Append(@, chunk)]
               /\ sess' = [sess EXCEPT ![s].waiting = 0]
               /\ dataLeft' = dataLeft - 1
          ELSE /\ sess' = [sess EXCEPT ![s].channel_senders = MapRemove(@, channel),
                                       ![s].waiting = 0]
               /\ conns' = [conns EXCEPT ![k].cb = Append(@, chunk)]
               /\ dataLeft' = dataLeft - 1
    /\ UNCHANGED <<auxVars, facadeVars, connsLeft>>

\* the holder of a receiver returned by add_port_raw takes the next
\* connection from it (rx.recv() yields Some).
PortReceiverRecv(ch) ==
    /\ ch \in 1..Len(chans)
    /\ chans[ch].rx
    /\ chans[ch].q # <<>>
    /\ LET k == Head(chans[ch].q)
       IN /\ chans' = [chans EXCEPT ![ch].q = Tail(@)]
          /\ conns' = [conns EXCEPT ![k].st = "received", ![k].via = ch]
    /\ UNCHANGED <<auxVars, ports, version, mgmt, call, callsLeft, overlapped, phist,
                   sess, connsLeft, dataLeft>>

\* ForwardedPortConnection::recv yields Some(chunk)
ConnectionRecv(k) ==
    /\ k \in 1..Len(conns)
    /\ conns[k].st = "received"
    /\ conns[k].inq # <<>>
    /\ conns' = [conns EXCEPT ![k].inq = Tail(@), ![k].got = Append(@, Head(conns[k].inq))]
    /\ UNCHANGED <<auxVars, facadeVars, sess, connsLeft, dataLeft>>

\* =========================================================== Part IV
\* the frames tungstenite hands to poll_read, and what a poll of the sink
\* (poll_ready with start_send, poll_flush) can answer
Frames == {"Binary", "Empty", "Pong", "Close"}

\* everything poll_next of the frame stream can yield: a message (Empty
\* is a binary message without payload), a read error, the end of the
\* stream
StreamItems == Frames \cup {"Text", "Ping", "ReadErr", "End"}

WriteOutcomes == {"Ok", "Err", "Pending"}

\* poll_read returns to the reader: Ready(Ok) with data, Ready(Ok) with
\* nothing written (EOF), Ready(Err) or Pending.  A reader that got data
\* polls again; after EOF or an error it stops.
Returns(w, r) ==
    [w EXCEPT !.result = r,
              !.woken = (r = "Data"),
              !.eofs = IF r = "EOF" THEN @ + 1 ELSE @]

ReturnsPendingOnWrite(w) ==
    [Returns(w, "Pending") EXCEPT !.write_waker = TRUE, !.pendLeft = @ - 1]

ReturnsWriteError(w) == [Returns(w, "Err") EXCEPT !.wfailed = TRUE]

\* an assignment to ping_state
SetPingState(w, st) ==
    [w EXCEPT !.ping_state = st,
              !.moves = IF w.ping_state = st THEN @ ELSE @ \cup {<<w.ping_state, st>>}]

\* a read loop for which a ping message closes the stream
MessageArm_PingCloses(f) ==
    CASE f \in {"Text", "Binary", "Empty"} -> "data"
      [] f \in {"Close", "Ping"} -> "close"
      [] f = "Pong" -> "pong"
      [] OTHER -> "next"

\* the arm of `match msg` that a message takes
MessageArm(f) ==
    CASE f \in {"Text", "Binary", "Empty"} -> "data"
      [] f = "Close" -> "close"
      [] f = "Pong" -> "pong"
      [] OTHER -> "next"

\* the read loop of poll_read: every message re-arms the timer for
\* ping_interval; text and binary payloads go through put_data (an empty
\* payload makes it return Pending, a payload larger than the target
\* leaves a rest when more is set), Close and the end of the stream are
\* EOF, a read error is an error, a Pong sets WillPing and the loop goes
\* on, as it does after any other message.
RECURSIVE ReadLoop(_, _)
ReadLoop(w, more) ==
    IF w.inbound = <<>>
    THEN [Returns(w, "Pending") EXCEPT !.read_waker = TRUE]
    ELSE LET f == Head(w.inbound)
             w0 == [w EXCEPT !.inbound = Tail(@)]
             w1 == [w0 EXCEPT !.timer = "interval", !.fired = FALSE,
                              !.probed = FALSE]
         IN CASE f = "End" -> Returns(w0, "EOF")
              [] f = "ReadErr" -> Returns(w0, "Err")
              [] MessageArm(f) = "data" ->
                    IF f = "Empty" THEN Returns(w1, "Pending")
                    ELSE [Returns(w1, "Data") EXCEPT !.leftover = more]
              [] MessageArm(f) = "close" -> Returns(w1, "EOF")
              [] MessageArm(f) = "pong" ->
                    ReadLoop([SetPingState(w1, "WillPing") EXCEPT !.unanswered = 0], more)
              [] OTHER -> ReadLoop(w1, more)

\* a flushed ping after which the timer is not armed for ping_timeout
poll_send_ping_NoReset(w, fo, more) ==
    CASE fo = "Ok" -> ReadLoop(SetPingState([w EXCEPT !.probed = TRUE],
                                            "WaitingForPong"), more)
      [] fo = "Err" -> ReturnsWriteError(w)
      [] OTHER -> ReturnsPendingOnWrite(w)

\* a flushed ping after which the adapter is ready to ping again
poll_send_ping_PingAgain(w, fo, more) ==
    CASE fo = "Ok" -> ReadLoop(SetPingState([w EXCEPT !.timer = "timeout",
                                                      !.fired = FALSE,
                                                      !.probed = TRUE],
                                            "WillPing"), more)
      [] fo = "Err" -> ReturnsWriteError(w)
      [] OTHER -> ReturnsPendingOnWrite(w)

\* AsyncRWWebSocket::poll_send_ping with flush outcome fo, followed by
\* what poll_read does with its answer: on Ok the timer is re-armed for
\* ping_timeout, the state is WaitingForPong and the read loop runs.
poll_send_ping(w, fo, more) ==
    CASE fo = "Ok" -> ReadLoop(SetPingState([w EXCEPT !.timer = "timeout",
                                                      !.fired = FALSE,
                                                      !.probed = TRUE],
                                            "WaitingForPong"), more)
      [] fo = "Err" -> ReturnsWriteError(w)
      [] OTHER -> ReturnsPendingOnWrite(w)

\* AsyncRWWebSocket::poll_read; ro is the answer of poll_ready and
\* start_send for the ping, fo the answer of the flush.  Polling the
\* timer registers the reader's waker with it.
poll_read(w, ro, fo, more) ==
    IF w.leftover
    THEN [Returns(w, "Data") EXCEPT !.leftover = more]
    ELSE IF w.ping_state = "SendingPing"
    THEN poll_send_ping(w, fo, more)
    ELSE LET w1 == [w EXCEPT !.timer_waker = TRUE]
         IN IF ~w1.fired
            THEN ReadLoop(w1, more)
            ELSE IF w1.ping_state = "WaitingForPong"
            THEN Returns([w1 EXCEPT !.timed_out = TRUE], "EOF")
            ELSE IF w1.ping_state = "SendingPing"
            THEN [w1 EXCEPT !.panicked = TRUE, !.woken = FALSE]
            ELSE CASE ro = "Ok" ->
                        poll_send_ping([SetPingState(w1, "SendingPing")
                                           EXCEPT !.pings = @ + 1,
                                                  !.unanswered = @ + 1], fo, more)
                   [] ro = "Err" -> ReturnsWriteError(w1)
                   [] OTHER -> ReturnsPendingOnWrite(w1)

WsOpen == ws.result \notin {"EOF", "Err"}

\* the reader task is scheduled and polls the adapter
WsPollRead(ro, fo, more) ==
    /\ WsOpen
    /\ ws.woken
    /\ ws' = poll_read(ws, ro, fo, more)
    /\ ws'.pendLeft >= 0
    /\ UNCHANGED <<facadeVars, sessVars, relay, fwd, rd, host, wr>>

\* the relay sends a frame: the socket wakes a reader that waits for it
WsFrameArrives(f) ==
    /\ WsOpen
    /\ ws.framesLeft > 0
    /\ ws' = [ws EXCEPT !.inbound = Append(@, f),
                        !.framesLeft = @ - 1,
                        !.read_waker = FALSE,
                        !.woken = @ \/ ws.read_waker]
    /\ UNCHANGED <<facadeVars, sessVars, relay, fwd, rd, host, wr>>

\* the time the timer was armed for has passed: the timer takes the
\* registered waker and wakes the reader task
WsTimerFires ==
    /\ WsOpen
    /\ ~ws.fired
    /\ ws' = [ws EXCEPT !.fired = TRUE,
                        !.timer_waker = FALSE,
                        !.woken = @ \/ ws.timer_waker]
    /\ UNCHANGED <<facadeVars, sessVars, relay, fwd, rd, host, wr>>

\* the socket becomes writable (or fails): the reader that waits for the
\* ping to be sent is woken
WsWritable ==
    /\ WsOpen
    /\ ws.write_waker
    /\ ws' = [ws EXCEPT !.write_waker = FALSE, !.woken = TRUE]
    /\ UNCHANGED <<facadeVars, sessVars, relay, fwd, rd, host, wr>>

\* ------------------------------------------------------- relay session
\* The outer SSH session delivers channel events to its Client handler,
\* which turns each into a ChannelOp on the unbounded queue rx; every send
\* is followed by .ok().
ChannelOp(op, id, d) == [op |-> op, id |-> id, data |-> d]

RelaySend(op, id, d) == [relay EXCEPT !.rx = Append(@, ChannelOp(op, id, d))]

\* the data the queue rx still holds for channel c, in order
RECURSIVE QueuedData(_, _)
QueuedData(q, c) ==
    IF q = <<>> THEN <<>>
    ELSE (IF Head(q).op = "Data" /\ Head(q).id = c
          THEN <<Head(q).data>> ELSE <<>>) \o QueuedData(Tail(q), c)

\* the channel types a remote side asks for
SessionStream == "client-ssh-session-stream"

ChannelTypes == {SessionStream, "client-ssh-session-stream2", "session"}

\* a handler that accepts every channel type
server_channel_handle_unknown_Any(channel, channel_type) ==
    [RelaySend("Open", channel, 0) EXCEPT
        !.cli[channel].opened = TRUE, !.cli[channel].ctype = channel_type]

\* Client::server_channel_handle_unknown: for the session-stream type
\* Open(channel) is sent and the channel accepted (true), any other type
\* is refused (false).
server_channel_handle_unknown(channel, channel_type) ==
    IF channel_type = SessionStream
    THEN [RelaySend("Open", channel, 0) EXCEPT
            !.cli[channel].opened = TRUE, !.cli[channel].ctype = channel_type]
    ELSE [relay EXCEPT !.cli[channel].ctype = channel_type]

\* the relay asks to open a channel with a fresh id and some type
ChannelOpenRequest(c, channel_type) ==
    /\ relay.outer = "up"
    /\ relay.cli[c].ctype = ""
    /\ relay.opsLeft > 0
    /\ relay' = [server_channel_handle_unknown(c, channel_type) EXCEPT
                    !.opsLeft = @ - 1]
    /\ UNCHANGED <<facadeVars, sessVars, ws, fwd, rd, host, wr>>

\* a remote client opens a channel of type client-ssh-session-stream
HandlerOpen(c) ==
    /\ relay.outer = "up"
    /\ relay.cli[c].ctype = ""
    /\ relay.opsLeft > 0
    /\ relay' = [server_channel_handle_unknown(c, SessionStream) EXCEPT
                    !.opsLeft = @ - 1]
    /\ UNCHANGED <<facadeVars, sessVars, ws, fwd, rd, host, wr>>

\* Client::data: bytes of an open channel.
HandlerData(c) ==
    /\ relay.outer = "up"
    /\ relay.cli[c].opened /\ ~relay.cli[c].closed
    /\ relay.opsLeft > 0
    /\ LET d == MaxOps - relay.opsLeft + 1 IN
       relay' = [RelaySend("Data", c, d) EXCEPT
                    !.cli[c].sent = Append(@, d), !.opsLeft = @ - 1]
    /\ UNCHANGED <<facadeVars, sessVars, ws, fwd, rd, host, wr>>

\* Client::data for a message that carries no bytes
HandlerDataEmpty(c) ==
    /\ relay.outer = "up"
    /\ relay.cli[c].opened /\ ~relay.cli[c].closed
    /\ relay.opsLeft > 0
    /\ relay' = [RelaySend("Data", c, 0) EXCEPT
                    !.cli[c].sent = Append(@, 0), !.opsLeft = @ - 1]
    /\ UNCHANGED <<facadeVars, sessVars, ws, fwd, rd, host, wr>>

\* Client::channel_close
HandlerClose(c) ==
    /\ relay.outer = "up"
    /\ relay.cli[c].opened /\ ~relay.cli[c].closed
    /\ relay.opsLeft > 0
    /\ relay' = [RelaySend("Close", c, 0) EXCEPT
                    !.cli[c].closed = TRUE, !.opsLeft = @ - 1]
    /\ UNCHANGED <<facadeVars, sessVars, ws, fwd, rd, host, wr>>

\* The outer session ends by itself, of a transport failure (WebSocket
\* read or write error, SSH protocol error, liveness timeout) or because
\* the relay disconnected gracefully.  Its task drops the Client handler
\* and with it the only sender of rx.
OuterSessionEnds(why) ==
    /\ relay.outer = "up"
    /\ relay' = [relay EXCEPT !.outer = "down", !.why = why]
    /\ UNCHANGED <<facadeVars, sessVars, ws, fwd, rd, host, wr>>

\* the arms of the dispatcher's match on the ChannelOp it received
DispatchOpen(r, id) ==
    [r EXCEPT !.cli[id].task = "running", !.channels = @ \cup {id}]

DispatchClose(r, id) == [r EXCEPT !.channels = @ \ {id}]

DispatchData_BreakOnError(r, id, d) ==
    IF id \notin r.channels THEN r
    ELSE IF r.cli[id].task = "running"
         THEN [r EXCEPT !.cli[id].incoming = Append(@, d)]
         ELSE [r EXCEPT !.disp = "disconnect"]

DispatchData(r, id, d) ==
    IF id \notin r.channels THEN r
    ELSE IF r.cli[id].task = "running"
         THEN [r EXCEPT !.cli[id].incoming = Append(@, d)]
         ELSE [r EXCEPT !.channels = @ \ {id}]

\* One turn of the dispatcher loop: rx.recv() yields the next ChannelOp.
DispatcherRecv ==
    /\ relay.disp = "loop"
    /\ relay.rx # <<>>
    /\ LET op == Head(relay.rx)
           r  == [relay EXCEPT !.rx = Tail(@)]
       IN relay' = CASE op.op = "Open"  -> DispatchOpen(r, op.id)
                     [] op.op = "Close" -> DispatchClose(r, op.id)
                     [] op.op = "Data"  -> DispatchData(r, op.id, op.data)
    /\ UNCHANGED <<facadeVars, sessVars, ws, fwd, rd, host, wr>>

\* rx.recv() yields None once the queue is drained and the handler is
\* gone; the select takes its else arm and the loop breaks.
DispatcherBreak ==
    /\ relay.disp = "loop"
    /\ relay.rx = <<>>
    /\ relay.outer = "down"
    /\ relay' = [relay EXCEPT !.disp = "disconnect"]
    /\ UNCHANGED <<facadeVars, sessVars, ws, fwd, rd, host, wr>>

\* After the loop: disconnect(ByApplication, "going away") with its result
\* discarded, then the task returns Ok(()) and drops the channels map.
DispatcherReturns ==
    /\ relay.disp = "disconnect"
    /\ relay' = [relay EXCEPT
                    !.disp = "done", !.join = "Ok", !.channels = {},
                    !.disconnects = IF relay.outer = "up"
                                    THEN Append(@, "going away") ELSE @,
                    !.outer = "down",
                    !.why = IF relay.outer = "up" THEN "going away" ELSE @]
    /\ UNCHANGED <<facadeVars, sessVars, ws, fwd, rd, host, wr>>

\* The client session task of channel c reads from its AsyncRWChannel:
\* poll_recv yields the next payload and put_data copies it.  For a
\* payload without bytes put_data answers Pending, and the task is parked
\* with no waker registered on the queue.
ClientRead(c) ==
    /\ relay.cli[c].task = "running"
    /\ ~relay.cli[c].parked
    /\ relay.cli[c].incoming # <<>>
    /\ relay' = [relay EXCEPT !.cli[c].got = Append(@, Head(relay.cli[c].incoming)),
                              !.cli[c].incoming = Tail(@),
                              !.cli[c].parked = (Head(relay.cli[c].incoming) = 0)]
    /\ UNCHANGED <<facadeVars, sessVars, ws, fwd, rd, host, wr>>

\* something else wakes the parked task (its session has other work)
ClientOtherWake(c) ==
    /\ relay.cli[c].task = "running"
    /\ relay.cli[c].parked
    /\ relay' = [relay EXCEPT !.cli[c].parked = FALSE]
    /\ UNCHANGED <<facadeVars, sessVars, ws, fwd, rd, host, wr>>

\* AsyncRWChannel::poll_read on a drained queue whose sender is gone
\* reports an error; the inner session, and its task, end.
ClientSeesEof(c) ==
    /\ relay.cli[c].task = "running"
    /\ ~relay.cli[c].parked
    /\ relay.cli[c].incoming = <<>>
    /\ c \notin relay.channels
    /\ relay' = [relay EXCEPT !.cli[c].task = "ended"]
    /\ UNCHANGED <<facadeVars, sessVars, ws, fwd, rd, host, wr>>

\* A client session fails (handshake error, error on its channel, task
\* ending): its task returns and drops the AsyncRWChannel with its queue.
ClientFails(c) ==
    /\ relay.cli[c].task = "running"
    /\ relay' = [relay EXCEPT !.cli[c].task = "failed", !.cli[c].incoming = <<>>,
                              !.cli[c].parked = FALSE]
    /\ UNCHANGED <<facadeVars, sessVars, ws, fwd, rd, host, wr>>

\* impl Future for RelayHandle: the result of polling the JoinHandle
\* mapped to the result of the handle.
RelayHandlePoll(j) ==
    CASE j = "Ok"        -> "Ok"
      [] j = "Err"       -> "TunnelRelayDisconnected"
      [] j = "JoinError" -> "Ok"

\* The caller awaits the handle; it resolves once the dispatcher returned.
HandleResolves ==
    /\ relay.handle = "held"
    /\ relay.disp = "done"
    /\ relay' = [relay EXCEPT !.handle = "resolved", !.hres = RelayHandlePoll(relay.join)]
    /\ UNCHANGED <<facadeVars, sessVars, ws, fwd, rd, host, wr>>

\* The caller drops the handle: the JoinHandle is dropped, which detaches
\* the dispatcher task, and one of the references to the outer session
\* is released; the dispatcher holds another.
HandleDrop ==
    /\ relay.handle = "held"
    /\ relay' = [relay EXCEPT !.handle = "dropped"]
    /\ UNCHANGED <<facadeVars, sessVars, ws, fwd, rd, host, wr>>

\* RelayHandle::close, first await: session.disconnect(ByApplication,
\* "disconnect").  It fails when the outer session is already gone.
HandleCloseDisconnect ==
    /\ relay.handle = "held"
    /\ relay' = IF relay.outer = "up"
                THEN [relay EXCEPT !.handle = "closing", !.closeres = "Ok",
                                   !.outer = "down", !.why = "close",
                                   !.disconnects = Append(@, "disconnect")]
                ELSE [relay EXCEPT !.handle = "closing", !.closeres = "Err"]
    /\ UNCHANGED <<facadeVars, sessVars, ws, fwd, rd, host, wr>>

\* RelayHandle::close, second await: self.join.await.ok(), then the
\* result of the disconnect.
HandleCloseReturns ==
    /\ relay.handle = "closing"
    /\ relay.disp = "done"
    /\ relay' = [relay EXCEPT !.handle = "closed",
                    !.hres = IF relay.closeres = "Ok" THEN "Ok"
                             ELSE "TunnelRelayDisconnected"]
    /\ UNCHANGED <<facadeVars, sessVars, ws, fwd, rd, host, wr>>

\* ------------------------------------------------- local TCP forwarder
\* a sender of channel ch exists: in the desired-port map, or in the
\* known_ports or the snapshot new_ports of a client session task that is
\* in its main loop
SenderAlive(ch) ==
    \/ \E n \in DOMAIN ports : ports[n] = ch
    \/ \E s \in Sessions :
          /\ sess[s].pc \in {"main", "pass"}
          /\ \/ \E n \in DOMAIN sess[s].known_ports : sess[s].known_ports[n] = ch
             \/ \E n \in DOMAIN sess[s].pass.new_ports : sess[s].pass.new_ports[n] = ch

\* forward_port_to_tcp, rx.recv().await yields Some(conn): the loop goes
\* on to dial the local address.
ForwarderRecv(ch) ==
    /\ ch \in DOMAIN fwd.loop
    /\ fwd.loop[ch].pc = "recv"
    /\ chans[ch].q # <<>>
    /\ LET k == Head(chans[ch].q)
       IN /\ chans' = [chans EXCEPT ![ch].q = Tail(@)]
          /\ conns' = [conns EXCEPT ![k].st = "dialling", ![k].via = ch]
          /\ fwd' = [fwd EXCEPT !.loop[ch] = [pc |-> "dial", conn |-> k]]
    /\ UNCHANGED <<ws, relay, rd, host, ports, version, mgmt, call, callsLeft, overlapped,
                   phist, sess, connsLeft, dataLeft, wr>>

\* TcpStream::connect failed and conn.close().await has returned: the
\* loop continues.  sent: the Close was handed to the session.
DialFailed(f, ch, k, sent) ==
    [f EXCEPT !.loop[ch] = NewForwarder, !.closed = IF sent THEN @ \cup {k} ELSE @]

\* TcpStream::connect(&addr).await returned.  Ok: the pump task is spawned
\* with the stream and the connection, and the loop is back at
\* rx.recv().  Err: the loop goes on to conn.close().await, still
\* holding the connection.
ForwarderDial(ch, ok) ==
    /\ ch \in DOMAIN fwd.loop
    /\ fwd.loop[ch].pc = "dial"
    /\ LET k == fwd.loop[ch].conn
       IN IF ok
          THEN /\ conns' = [conns EXCEPT ![k].st = "pumping"]
               /\ fwd' = [fwd EXCEPT !.loop[ch] = NewForwarder]
          ELSE /\ conns' = [conns EXCEPT ![k].st = "closing"]
               /\ fwd' = [fwd EXCEPT !.loop[ch] = [pc |-> "close", conn |-> k]]
    /\ UNCHANGED <<ws, relay, rd, host, facadeVars, sess, connsLeft, dataLeft, wr>>

\* conn.close().await after a failed dial, that is Handle::close: the
\* channel's Close is put on the bounded queue to the session, waiting
\* for room; with the session gone it fails and the error is discarded.
\* The connection is dropped when close returns and the loop continues.
ForwarderClose(ch) ==
    /\ ch \in DOMAIN fwd.loop
    /\ fwd.loop[ch].pc = "close"
    /\ LET k == fwd.loop[ch].conn
           s == conns[k].sess
       IN /\ IF sess[s].alive
             THEN /\ Len(sess[s].hq) < HandleCap
                  /\ sess' = [sess EXCEPT ![s].hq = Append(@, CloseMsg(conns[k].channel))]
                  /\ fwd' = DialFailed(fwd, ch, k, TRUE)
             ELSE /\ sess' = sess
                  /\ fwd' = DialFailed(fwd, ch, k, FALSE)
          /\ conns' = [conns EXCEPT ![k].st = "dropped", ![k].inq = <<>>]
          /\ chans' = [chans EXCEPT ![ch].rx = fwd'.loop[ch].pc # "ended"]
    /\ UNCHANGED <<ws, relay, rd, host, ports, version, mgmt, call, callsLeft, overlapped,
                   phist, connsLeft, dataLeft, wr>>

\* rx.recv().await yields None: the queue is drained and no sender is
\* left; the while loop ends and the task drops the receiver.
ForwarderEnds(ch) ==
    /\ ch \in DOMAIN fwd.loop
    /\ fwd.loop[ch].pc = "recv"
    /\ chans[ch].q = <<>>
    /\ ~SenderAlive(ch)
    /\ fwd' = [fwd EXCEPT !.loop[ch].pc = "ended"]
    /\ chans' = [chans EXCEPT ![ch].rx = FALSE]
    /\ UNCHANGED <<ws, relay, rd, host, ports, version, mgmt, call, callsLeft, overlapped,
                   phist, sessVars, wr>>

\* the pump task, select arm conn.recv() => Some(data): the chunk is
\* taken from the inbound queue and the pump goes on to
\* stream.write_all(&data); it polls neither arm until that returns
PumpRecv(k) ==
    /\ k \in 1..Len(conns)
    /\ conns[k].st = "pumping"
    /\ conns[k].inq # <<>>
    /\ conns' = [conns EXCEPT ![k].inq = Tail(@), ![k].wbuf = <<Head(conns[k].inq)>>,
                              ![k].st = "writing"]
    /\ UNCHANGED <<auxVars, facadeVars, sess, connsLeft, dataLeft>>

\* stream.write_all(&data).await returned Ok: the local TCP peer has the
\* chunk and the pump is back at its select
PumpWriteDone(k) ==
    /\ k \in 1..Len(conns)
    /\ conns[k].st = "writing"
    /\ conns' = [conns EXCEPT ![k].got = @ \o conns[k].wbuf, ![k].wbuf = <<>>,
                              ![k].st = "pumping"]
    /\ UNCHANGED <<auxVars, facadeVars, sess, connsLeft, dataLeft>>

\* the pump task breaks out of its loop (EOF or error on the TCP stream,
\* a write error) and drops the stream and the connection
PumpEnds(k) ==
    /\ k \in 1..Len(conns)
    /\ conns[k].st \in {"pumping", "writing"}
    /\ conns' = [conns EXCEPT ![k].st = "dropped", ![k].inq = <<>>, ![k].wbuf = <<>>]
    /\ UNCHANGED <<auxVars, facadeVars, sess, connsLeft, dataLeft>>

\* the remote client closes a forwarded-tcpip channel of its session.
\* ServerHandle implements neither channel_close nor channel_eof, so the
\* handler's default does nothing: the sender stays in channel_senders.
\* The client sends no data on the channel afterwards.
ChannelCloseByClient(s, channel) ==
    /\ sess[s].alive
    /\ sess[s].authed
    /\ channel < sess[s].next_channel
    /\ channel \notin sess[s].remote_closed
    /\ sess[s].waiting = 0
    /\ sess' = [sess EXCEPT ![s].remote_closed = @ \cup {channel}]
    /\ UNCHANGED <<auxVars, facadeVars, conns, connsLeft, dataLeft>>

\* the sender half of the inbound queue of connection k still exists: it
\* lives in channel_senders of the handler of the connection's session
QueueSenderAlive(k) ==
    DataTarget(sess[conns[k].sess].channel_senders, conns[k].channel) = k

\* the pump task, select arm conn.recv() => None: the queue is drained
\* and its sender was dropped; the pump breaks out of its loop.
PumpRecvNone(k) ==
    /\ k \in 1..Len(conns)
    /\ conns[k].st = "pumping"
    /\ conns[k].inq = <<>>
    /\ ~QueueSenderAlive(k)
    /\ conns' = [conns EXCEPT ![k].st = "dropped"]
    /\ UNCHANGED <<auxVars, facadeVars, sess, connsLeft, dataLeft>>

\* the pump task, select arm stream.read => Ok(n): the pump goes on to
\* conn.send(&read_buf[..n]) and polls nothing else until it returns.
\* The local servers send MaxBurst reads' worth of bytes between them.
TcpRead(k) ==
    /\ k \in 1..Len(conns)
    /\ conns[k].st = "pumping"
    /\ LET reads[n \in 0..Len(conns)] ==
               IF n = 0 THEN 0 ELSE conns[n].reads + reads[n - 1]
       IN reads[Len(conns)] < MaxBurst
    /\ conns' = [conns EXCEPT ![k].reads = @ + 1, ![k].st = "sending"]
    /\ UNCHANGED <<auxVars, facadeVars, sess, connsLeft, dataLeft>>

\* ForwardedPortConnection::send, that is Handle::data: the bytes are
\* put on the bounded queue to the session, waiting for room; with the
\* session gone the send fails and the pump breaks.
SendCompletes(k) ==
    /\ k \in 1..Len(conns)
    /\ conns[k].st = "sending"
    /\ LET s == conns[k].sess
       IN IF sess[s].alive
          THEN /\ Len(sess[s].hq) < HandleCap
               /\ sess' = [sess EXCEPT ![s].hq =
                             Append(@, DataMsg(conns[k].channel, conns[k].reads))]
               /\ conns' = [conns EXCEPT ![k].st = "pumping"]
          ELSE /\ conns' = [conns EXCEPT ![k].st = "dropped"]
               /\ sess' = sess
    /\ UNCHANGED <<auxVars, facadeVars, connsLeft, dataLeft>>

\* the session, between two callbacks, takes the next message of its
\* Handle queue and writes it to the client
SessionWrites(s) ==
    /\ sess[s].alive
    /\ sess[s].waiting = 0
    /\ sess[s].hq # <<>>
    /\ sess' = [sess EXCEPT ![s].hq = Tail(@), ![s].wire = Append(@, Head(sess[s].hq))]
    /\ UNCHANGED <<auxVars, facadeVars, conns, connsLeft, dataLeft>>

\* ------------------------------------------------ chunked byte reader
\* ReadBuffer::take_data: self.0.take(), as <<value, buffer afterwards>>
take_data(rb) == <<rb, None>>

\* ReadBuffer::put_data into a target with room for remaining bytes: what
\* it answers, the bytes it put, and the buffer afterwards
put_data(remaining, bytes) ==
    IF bytes = <<>>
    THEN [poll |-> "Pending", put |-> <<>>, readbuf |-> None]
    ELSE IF remaining >= Len(bytes)
    THEN [poll |-> "Ready", put |-> bytes, readbuf |-> None]
    ELSE [poll |-> "Ready", put |-> SubSeq(bytes, 1, remaining),
          readbuf |-> Some(SubSeq(bytes, remaining + 1, Len(bytes)))]

\* the reader after put_data answered a; a task that got Ready reads on
ReaderAfterPut(r, a) ==
    [r EXCEPT !.readbuf = a.readbuf,
              !.out = @ \o a.put,
              !.result = IF a.poll = "Pending" THEN "Pending"
                         ELSE IF a.put = <<>> THEN "EOF" ELSE "Data",
              !.woken = (a.poll = "Ready" /\ a.put # <<>>)]

\* ForwardedPortReader::poll_read and AsyncRWChannel::poll_read with a
\* target of the given size: leftover first, else the next chunk of the
\* queue; an empty queue registers the waker and is Pending while a sender
\* exists, and is the error "EOF" when none does.
reader_poll_read(r, remaining) ==
    LET t == take_data(r.readbuf) IN
    IF t[1].some
    THEN ReaderAfterPut([r EXCEPT !.readbuf = t[2]], put_data(remaining, t[1].v))
    ELSE IF r.receiver # <<>>
    THEN ReaderAfterPut([r EXCEPT !.receiver = Tail(@)],
                        put_data(remaining, Head(r.receiver)))
    ELSE IF r.open
    THEN [r EXCEPT !.result = "Pending", !.waker = TRUE, !.woken = FALSE]
    ELSE [r EXCEPT !.result = "Err", !.woken = FALSE]

\* a send on the queue wakes the waker registered with it, and takes it
QueueWakes(r) == [r EXCEPT !.woken = @ \/ r.waker, !.waker = FALSE]

\* the bytes of the next chunk of the given length: numbered on from the
\* bytes fed so far
NextBytes(r, len) == [i \in 1..len |-> Len(r.fed) + i]

\* the upstream sends a chunk
ReaderFeed(len) ==
    /\ rd.open
    /\ rd.feedsLeft > 0
    /\ LET bytes == NextBytes(rd, len) IN
       rd' = QueueWakes([rd EXCEPT !.receiver = Append(@, bytes),
                                   !.fed = @ \o bytes,
                                   !.feedsLeft = @ - 1])
    /\ UNCHANGED <<facadeVars, sessVars, ws, relay, fwd, host, wr>>

\* the upstream drops its sender
ReaderUpstreamCloses ==
    /\ rd.open
    /\ rd' = QueueWakes([rd EXCEPT !.open = FALSE])
    /\ UNCHANGED <<facadeVars, sessVars, ws, relay, fwd, host, wr>>

\* the scheduled task polls its read
ReaderPoll(remaining) ==
    /\ rd.woken
    /\ rd.result \notin {"Err", "EOF"}
    /\ rd' = reader_poll_read(rd, remaining)
    /\ UNCHANGED <<facadeVars, sessVars, ws, relay, fwd, host, wr>>

\* the task is woken by another of its event sources and polls again
ReaderOtherWake ==
    /\ ~rd.woken
    /\ rd.result = "Pending"
    /\ rd' = [rd EXCEPT !.woken = TRUE]
    /\ UNCHANGED <<facadeVars, sessVars, ws, relay, fwd, host, wr>>

\* ------------------------------------------------ channel write adapters
\* What Handle::data(id, data).await does when it is polled: it waits for
\* room on the queue to the SSH session ("Pending"), hands the data over
\* ("Ok") or finds the session gone ("Err").
WriteOutcomeKinds == {"Pending", "Ok", "Err"}

\* a poll_flush that polls the stored future whatever the flag says
poll_flush_NoCheck(w, outcome) ==
    IF w.write_fut.data = 0 \/ w.write_fut.st = "done"
    THEN [w |-> [w EXCEPT !.panicked = TRUE,
                          !.last.polled = IF w.write_fut.data = 0 THEN "placeholder"
                                          ELSE "returned"],
          ret |-> "Panic"]
    ELSE IF outcome = "Pending"
    THEN [w |-> [w EXCEPT !.write_fut.st = "pending", !.last.polled = "write"],
          ret |-> "Pending"]
    ELSE IF outcome = "Ok"
    THEN [w |-> [w EXCEPT !.is_write_fut_valid = FALSE, !.write_fut.st = "done",
                          !.sent = Append(@, w.write_fut.data),
                          !.last.polled = "write"],
          ret |-> "Ok"]
    ELSE [w |-> [w EXCEPT !.is_write_fut_valid = FALSE, !.write_fut.st = "done",
                          !.last.polled = "write"],
          ret |-> "Err"]

\* a poll_flush that leaves the flag set when the write has returned
poll_flush_KeepFlag(w, outcome) ==
    IF ~w.is_write_fut_valid
    THEN [w |-> w, ret |-> "Ok"]
    ELSE IF w.write_fut.data = 0 \/ w.write_fut.st = "done"
    THEN [w |-> [w EXCEPT !.panicked = TRUE,
                          !.last.polled = IF w.write_fut.data = 0 THEN "placeholder"
                                          ELSE "returned"],
          ret |-> "Panic"]
    ELSE IF outcome = "Pending"
    THEN [w |-> [w EXCEPT !.write_fut.st = "pending", !.last.polled = "write"],
          ret |-> "Pending"]
    ELSE IF outcome = "Ok"
    THEN [w |-> [w EXCEPT !.write_fut.st = "done",
                          !.sent = Append(@, w.write_fut.data),
                          !.last.polled = "write"],
          ret |-> "Ok"]
    ELSE [w |-> [w EXCEPT !.write_fut.st = "done", !.last.polled = "write"],
          ret |-> "Err"]

\* poll_flush: Ready(Ok) at once when no write is in flight; otherwise the
\* stored future is polled, and when it returns the flag is cleared and
\* its result is passed on (an error as io::Error "EOF").  Polling the
\* placeholder runs into unreachable!, polling a future that has returned
\* panics as well.
poll_flush(w, outcome) ==
    IF ~w.is_write_fut_valid
    THEN [w |-> w, ret |-> "Ok"]
    ELSE IF w.write_fut.data = 0 \/ w.write_fut.st = "done"
    THEN [w |-> [w EXCEPT !.panicked = TRUE,
                          !.last.polled = IF w.write_fut.data = 0 THEN "placeholder"
                                          ELSE "returned"],
          ret |-> "Panic"]
    ELSE IF outcome = "Pending"
    THEN [w |-> [w EXCEPT !.write_fut.st = "pending", !.last.polled = "write"],
          ret |-> "Pending"]
    ELSE IF outcome = "Ok"
    THEN [w |-> [w EXCEPT !.is_write_fut_valid = FALSE, !.write_fut.st = "done",
                          !.sent = Append(@, w.write_fut.data),
                          !.last.polled = "write"],
          ret |-> "Ok"]
    ELSE [w |-> [w EXCEPT !.is_write_fut_valid = FALSE, !.write_fut.st = "done",
                          !.last.polled = "write"],
          ret |-> "Err"]

\* a poll_write that installs a future for its buffer on every call
poll_write_AlwaysSet(w, b, outcome) ==
    poll_flush([w EXCEPT !.write_fut = make_write_fut(b),
                         !.is_write_fut_valid = TRUE,
                         !.last.installed = TRUE],
               outcome)

\* poll_write: when no write is in flight a future for a copy of buf is
\* installed and the flag set; then poll_flush, whose Ready(Ok(())) becomes
\* Ready(Ok(buf.len())).
poll_write(w, b, outcome) ==
    poll_flush(IF ~w.is_write_fut_valid
               THEN [w EXCEPT !.write_fut = make_write_fut(b),
                              !.is_write_fut_valid = TRUE,
                              !.last.installed = TRUE]
               ELSE w,
               outcome)

\* a poll_shutdown that sends SSH EOF on the channel
poll_shutdown_SendsEof(w) == [w |-> [w EXCEPT !.eof_sent = TRUE], ret |-> "Ok"]

\* poll_shutdown: Ready(Ok(())) and nothing else
poll_shutdown(w) == [w |-> w, ret |-> "Ok"]

\* the note a call leaves in last before the adapter code runs
Called(w, op) ==
    [w EXCEPT !.last = [op |-> op, valid_before |-> w.is_write_fut_valid,
                        installed |-> FALSE, polled |-> "none"]]

\* a sent buffer is counted only up to this many, so that a task which
\* makes the adapter send a buffer again and again stops
MaxSent == MaxWrites + 1

\* the task calls poll_write with buffer b: the one it is retrying, or its
\* next one (a task that is not retrying may give up the unfinished
\* write for it)
WriterPollWrite(b, outcome) ==
    /\ wr.adapter \in Adapters
    /\ ~wr.panicked
    /\ \/ b = wr.cur /\ b # 0
       \/ b = wr.nextbuf /\ b <= MaxWrites /\ (wr.cur = 0 \/ ~wr.retrying)
    /\ Len(wr.sent) < MaxSent
    /\ LET r == poll_write(Called(wr, "poll_write"), b, outcome) IN
       wr' = [r.w EXCEPT
                !.result = [kind |-> r.ret, n |-> IF r.ret = "Ok" THEN b ELSE 0],
                !.accepted = IF r.ret = "Ok" THEN Append(@, b) ELSE @,
                !.cur = IF r.ret = "Pending" THEN b ELSE 0,
                !.nextbuf = IF b = wr.nextbuf THEN @ + 1 ELSE @]
    /\ UNCHANGED <<facadeVars, sessVars, ws, relay, fwd, rd, host>>

\* the task calls poll_flush, at any point: also between a poll_write
\* that returned Pending and the poll_write that repeats it
WriterPollFlush(outcome) ==
    /\ wr.adapter \in Adapters
    /\ ~wr.panicked
    /\ Len(wr.sent) < MaxSent
    /\ LET r == poll_flush(Called(wr, "poll_flush"), outcome) IN
       wr' = [r.w EXCEPT !.result = [kind |-> r.ret, n |-> 0],
                         !.flushed_between = @ \/ wr.cur # 0]
    /\ UNCHANGED <<facadeVars, sessVars, ws, relay, fwd, rd, host>>

\* the task calls poll_shutdown, at any point
WriterPollShutdown ==
    /\ wr.adapter \in Adapters
    /\ ~wr.panicked
    /\ LET r == poll_shutdown(Called(wr, "poll_shutdown")) IN
       wr' = [r.w EXCEPT !.result = [kind |-> r.ret, n |-> 0],
                         !.read_at_shutdown = Len(rd.out)]
    /\ UNCHANGED <<facadeVars, sessVars, ws, relay, fwd, rd, host>>

\* ---------------------------------------------------- dropped receiver
\* The holder of a receiver returned by add_port_raw drops it: the queue
\* closes and the connections still queued on it are dropped with it.
\* Nothing of it reaches ports_tx.
DropReceiver(ch) ==
    /\ ch \in 1..Len(chans)
    /\ ch \notin DOMAIN fwd.loop
    /\ chans[ch].rx
    /\ chans' = [chans EXCEPT ![ch].rx = FALSE, ![ch].q = <<>>]
    /\ conns' = [k \in 1..Len(conns) |->
                   IF conns[k].st = "queued" /\ conns[k].via = ch
                   THEN [conns[k] EXCEPT !.st = "dropped"]
                   ELSE conns[k]]
    /\ UNCHANGED <<auxVars, ports, version, mgmt, call, callsLeft, overlapped, phist,
                   sess, connsLeft, dataLeft>>

\* ------------------------------------------------------------ reconnect
\* The relay session of the last connect() has ended, its client session
\* tasks with it, and the caller's next connect() on the same HostRelay
\* returned a RelayHandle: a new dispatcher runs with a clone of
\* self.ports_rx and the channels of the new session are all unopened.
ConnectedAgain ==
    /\ host.pc = "idle"
    /\ host.connected >= 1
    /\ host.connectsLeft > 0
    /\ \A s \in Sessions : sess[s].pc \in {"closed", "ended"}
    /\ host' = [host EXCEPT !.connected = @ + 1, !.dispatchers = @ + 1,
                            !.connectsLeft = @ - 1,
                            !.steps = ConnectSteps, !.failed = "none",
                            !.result = OkHandle(host.dispatchers + 1)]
    /\ sess' = [s \in Sessions |-> ClosedSession]
    /\ UNCHANGED <<facadeVars, conns, connsLeft, dataLeft, ws, relay, fwd, rd, wr>>

\* -------------------------------------------------------------- connect
\* connect() up to its first await: create_websocket issues
\* update_tunnel_relay_endpoints.
ConnectCall ==
    /\ host.pc = "idle"
    /\ host.connectsLeft > 0
    /\ host' = [host EXCEPT !.pc = "update", !.steps = <<"update">>,
                            !.failed = "none", !.result = NoResult,
                            !.connectsLeft = @ - 1]
    /\ UNCHANGED <<facadeVars, sessVars, ws, relay, fwd, rd, wr>>

\* an endpoint step that takes whatever came back as a URI to connect to
endpoint_step_NoUriCheck(r, uri) ==
    IF r # "Ok"
    THEN HttpError("failed to update tunnel endpoint for hosting")
    ELSE NoResult

\* create_websocket after update_tunnel_relay_endpoints answered r with
\* an endpoint whose host_relay_uri is absent ("none"), not a URL with a
\* host ("invalid") or usable ("valid"): the error returned, NoResult when
\* the call goes on to connect_async.
endpoint_step(r, uri) ==
    IF r # "Ok"
    THEN HttpError("failed to update tunnel endpoint for hosting")
    ELSE IF uri = "none" THEN TunnelErr("MissingHostEndpoint")
    ELSE IF uri = "invalid" THEN TunnelErr("InvalidHostEndpoint")
    ELSE NoResult

\* the step at which the endpoint part fails for these answers
EndpointFailure(r, uri) ==
    IF r # "Ok" THEN "update"
    ELSE IF uri = "valid" THEN "none" ELSE "uri"

ConnectEndpointUpdated(r, uri) ==
    /\ host.pc = "update"
    /\ LET e == endpoint_step(r, uri) IN
       host' = IF e = NoResult
               THEN [host EXCEPT !.pc = "websocket", !.steps = Append(@, "websocket"),
                                 !.failed = EndpointFailure(r, uri)]
               ELSE [host EXCEPT !.pc = "idle", !.result = e,
                                 !.failed = EndpointFailure(r, uri)]
    /\ UNCHANGED <<facadeVars, sessVars, ws, relay, fwd, rd, wr>>

\* connect_async returned: an error is WebSocketError; otherwise the
\* adapter is built and make_ssh_client starts the outer SSH handshake.
ConnectWebSocket(ok) ==
    /\ host.pc = "websocket"
    /\ host' = IF ok
               THEN [host EXCEPT !.pc = "ssh", !.steps = Append(@, "ssh")]
               ELSE [host EXCEPT !.pc = "idle", !.failed = "websocket",
                                 !.result = TunnelErr("WebSocketError")]
    /\ UNCHANGED <<facadeVars, sessVars, ws, relay, fwd, rd, wr>>

\* make_ssh_client returned: an error is TunnelRelayDisconnected;
\* otherwise the dispatcher task is spawned and the handle returned.
ConnectSsh(ok) ==
    /\ host.pc = "ssh"
    /\ host' = IF ok
               THEN [host EXCEPT !.pc = "idle", !.steps = Append(@, "spawn"),
                                 !.dispatchers = @ + 1, !.connected = @ + 1,
                                 !.result = OkHandle(host.dispatchers + 1)]
               ELSE [host EXCEPT !.pc = "idle", !.failed = "ssh",
                                 !.result = TunnelErr("TunnelRelayDisconnected")]
    /\ UNCHANGED <<facadeVars, sessVars, ws, relay, fwd, rd, wr>>

\* ----------------------------------------------------------- unregister
\* unregister: the boolean of delete_tunnel_endpoints is passed on, an
\* error is wrapped in HttpError.
unregister(auth, st) ==
    LET r == delete_tunnel_endpoints(auth, st)
    IN IF r.ok THEN OkBool(r.val) ELSE HttpError("could not unregister relay")

\* a call of unregister() that the service answers with status st (0: the
\* request failed without an answer, or was not issued for want of an
\* authorization)
Unregister(auth, st) ==
    /\ host' = [host EXCEPT !.unregStatus = IF auth THEN st ELSE 0,
                            !.unreg = unregister(auth, st)]
    /\ UNCHANGED <<facadeVars, sessVars, ws, relay, fwd, rd, wr>>

\* ------------------------------------------------------ specifications
\* the facade alone, calls of different callers overlapping freely
Next ==
    \/ \E c \in Callers, n \in Ports : AddPortRawCall(c, n)
    \/ \E c \in Callers, auth \in BOOLEAN : AddPortRawAuth(c, auth)
    \/ \E c \in Callers, st \in Statuses, body \in Bodies : AddPortRawResume(c, st, body)
    \/ \E c \in Callers, n \in Ports : RemovePortCall(c, n)
    \/ \E c \in Callers, auth \in BOOLEAN : RemovePortAuth(c, auth)
    \/ \E c \in Callers, st \in Statuses : RemovePortResume(c, st)

\* one caller using the facade while client sessions come and go
NextSess ==
    \/ \E n \in Ports : AddPortRawCall(1, n)
    \/ AddPortRawAuth(1, TRUE)
    \/ \E st \in {200, 500} : AddPortRawResume(1, st, "json")
    \/ \E n \in Ports : RemovePortCall(1, n)
    \/ RemovePortAuth(1, TRUE)
    \/ \E st \in {200, 500} : RemovePortResume(1, st)
    \/ \E s \in Sessions : ChannelOpOpen(s)
    \/ \E s \in Sessions : RunStreamHandshakeErr(s)
    \/ \E s \in Sessions : RunStreamHandshakeOk(s)
    \/ \E s \in Sessions : auth_succeeded(s)
    \/ \E s \in Sessions : SessionEnds(s)
    \/ \E s \in Sessions : ClosedBeforeAuth(s)
    \/ \E s \in Sessions : EnterMainLoop(s)
    \/ \E s \in Sessions, r \in {"Ok", "Err"} : SessionDone(s, r)
    \/ \E s \in Sessions : NoMoreConnections(s)
    \/ \E s \in Sessions : Reconcile(s)
    \/ \E s \in Sessions, p \in Ports : ReconcileSend(s, p, TRUE)
    \/ \E s \in Sessions : SessionWrites(s)

\* authenticated client sessions, remote clients opening forwarded-tcpip
\* channels and sending data on them, and consumers reading, while the
\* facade rests; the inner sessions that end, end without an error
NextRoute ==
    \/ \E s \in Sessions : SessionEnds(s)
    \/ \E s \in Sessions : SessionDone(s, "Ok")
    \/ \E s \in Sessions : NoMoreConnections(s)
    \/ \E s \in Sessions : Reconcile(s)
    \/ \E s \in Sessions, p \in Ports : ReconcileSend(s, p, TRUE)
    \/ \E s \in Sessions : RouteConnection(s)
    \/ \E s \in Sessions, p \in Ports : channel_open_forwarded_tcpip(s, p)
    \/ \E s \in Sessions, ch \in 1..MaxConns : data(s, ch)
    \/ \E ch \in 1..Len(chans) : PortReceiverRecv(ch)
    \/ \E k \in 1..Len(conns) : ConnectionRecv(k)
    \/ \E s \in Sessions : SessionWrites(s)

\* clients sending data on their forwarded-tcpip channels and opening
\* further ones while the consumers read
NextData ==
    \/ \E s \in Sessions, ch \in 1..MaxConns : data(s, ch)
    \/ \E k \in 1..Len(conns) : ConnectionRecv(k)
    \/ \E s \in Sessions, p \in Ports : channel_open_forwarded_tcpip(s, p)
    \/ \E s \in Sessions : RouteConnection(s)
    \/ \E ch \in 1..Len(chans) : PortReceiverRecv(ch)

Spec == Init /\ [][Next]_vars

SpecData == InitData /\ [][NextData]_vars

\* the WebSocket adapter, its reader, its timer and its socket
NextWs ==
    \/ \E ro, fo \in WriteOutcomes, more \in BOOLEAN : WsPollRead(ro, fo, more)
    \/ \E f \in Frames : WsFrameArrives(f)
    \/ WsTimerFires
    \/ WsWritable

SpecWs == Init /\ [][NextWs]_vars

\* the adapter fed with every kind of message, read errors and the end
\* of the stream
NextWsRead ==
    \/ \E ro, fo \in WriteOutcomes, more \in BOOLEAN : WsPollRead(ro, fo, more)
    \/ \E f \in StreamItems : WsFrameArrives(f)
    \/ WsTimerFires
    \/ WsWritable

SpecWsRead == Init /\ [][NextWsRead]_vars

\* a woken task is polled, time passes, and a socket that is not writable
\* becomes writable or fails
FairSpecWs ==
    /\ SpecWs
    /\ WF_vars(\E ro, fo \in WriteOutcomes, more \in BOOLEAN : WsPollRead(ro, fo, more))
    /\ WF_vars(WsTimerFires)
    /\ WF_vars(WsWritable)

NextRelay ==
    \/ \E c \in Channels : HandlerOpen(c)
    \/ \E c \in Channels : HandlerData(c)
    \/ \E c \in Channels : HandlerClose(c)
    \/ \E why \in {"failure", "remote"} : OuterSessionEnds(why)
    \/ DispatcherRecv
    \/ DispatcherBreak
    \/ DispatcherReturns
    \/ \E c \in Channels : ClientRead(c)
    \/ \E c \in Channels : ClientSeesEof(c)
    \/ \E c \in Channels : ClientFails(c)
    \/ HandleResolves
    \/ HandleDrop
    \/ HandleCloseDisconnect
    \/ HandleCloseReturns

SpecRelay == Init /\ [][NextRelay]_vars

\* The dispatcher and the client session tasks are spawned tasks of the
\* runtime and a caller inside close() keeps being polled: each takes its
\* next step when it can.  What the remote side and the caller do is not
\* forced.
FairSpecRelay ==
    /\ SpecRelay
    /\ WF_vars(DispatcherRecv)
    /\ WF_vars(DispatcherBreak)
    /\ WF_vars(DispatcherReturns)
    /\ \A c \in Channels : WF_vars(ClientRead(c))
    /\ \A c \in Channels : WF_vars(ClientSeesEof(c))
    /\ WF_vars(HandleCloseReturns)


\* the facade removing a port that was added with add_port, client
\* sessions in their main loop reconciling while their remote client
\* sends data on a forwarded connection, the pump of that connection in
\* both directions, and the forwarders of the ports
NextFwd ==
    \/ \E n \in Ports : RemovePortCall(1, n)
    \/ RemovePortAuth(1, TRUE)
    \/ \E st \in {200, 500} : RemovePortResume(1, st)
    \/ \E s \in Sessions : Reconcile(s)
    \/ \E s \in Sessions, p \in Ports, ok \in BOOLEAN : ReconcileSend(s, p, ok)
    \/ \E s \in Sessions, c \in 1..MaxConns : data(s, c)
    \/ \E ch \in ForwarderIds : ForwarderEnds(ch)
    \/ \E k \in 1..MaxConns : PumpRecv(k)
    \/ \E k \in 1..MaxConns : PumpWriteDone(k)
    \/ \E k \in 1..MaxConns : TcpRead(k)
    \/ \E k \in 1..MaxConns : SendCompletes(k)
    \/ \E s \in Sessions : SessionWrites(s)

SpecFwd == InitBurst /\ [][NextFwd]_vars

\* Every task is polled when what it waits for is there.  A client
\* session task in its main loop is polled when the watch channel
\* changed, and select! picks among its ready arms at random; a forwarder
\* task is polled when its queue closes; a pump task is polled when its
\* queue has a chunk and when its write returns.  A Handle call returns
\* once the queue to the inner session has room, and the inner session
\* is polled when its callback can go on or, with no callback running, a
\* message is queued.
FairSpecFwd ==
    /\ SpecFwd
    /\ \A s \in Sessions :
          /\ WF_vars(SessionWrites(s))
          /\ WF_vars(\E c \in 1..MaxConns : data(s, c))
    /\ \A s \in Sessions :
          /\ WF_vars(Reconcile(s))
          /\ WF_vars(\E p \in Ports, ok \in BOOLEAN : ReconcileSend(s, p, ok))
    /\ \A ch \in ForwarderIds : WF_vars(ForwarderEnds(ch))
    /\ \A k \in 1..MaxConns :
          /\ WF_vars(PumpRecv(k))
          /\ WF_vars(PumpWriteDone(k))
          /\ WF_vars(SendCompletes(k))


\* remote clients opening forwarded-tcpip channels and sending data on
\* them while the forwarders dial and the pumps run in both directions;
\* no port is removed
NextPump ==
    \/ \E s \in Sessions, p \in Ports : channel_open_forwarded_tcpip(s, p)
    \/ \E s \in Sessions : RouteConnection(s)
    \/ \E s \in Sessions, c \in 1..MaxConns : data(s, c)
    \/ \E ch \in 1..Cardinality(Ports) : ForwarderRecv(ch)
    \/ \E ch \in 1..Cardinality(Ports), ok \in BOOLEAN : ForwarderDial(ch, ok)
    \/ \E ch \in 1..Cardinality(Ports) : ForwarderClose(ch)
    \/ \E k \in 1..MaxConns : PumpRecv(k)
    \/ \E k \in 1..MaxConns : PumpWriteDone(k)
    \/ \E k \in 1..MaxConns : PumpEnds(k)
    \/ \E k \in 1..MaxConns : TcpRead(k)
    \/ \E k \in 1..MaxConns : SendCompletes(k)
    \/ \E s \in Sessions : SessionWrites(s)

SpecPump == InitBurst /\ [][NextPump]_vars

\* every task is polled when what it waits for is there: a forwarder
\* when its queue has a connection and when its dial returns, a pump when
\* its queue has a chunk and when its write returns, a Handle call when
\* the queue to the inner session has room, and the session when its
\* callback can go on or, with no callback running, a message is queued
FairSpecPump ==
    /\ SpecPump
    /\ \A s \in Sessions :
          /\ WF_vars(SessionWrites(s))
          /\ WF_vars(\E c \in 1..MaxConns : data(s, c))
    /\ \A k \in 1..MaxConns :
          /\ WF_vars(PumpRecv(k))
          /\ WF_vars(PumpWriteDone(k))
          /\ WF_vars(SendCompletes(k))
    /\ \A ch \in 1..Cardinality(Ports) :
          /\ WF_vars(ForwarderRecv(ch))
          /\ WF_vars(\E ok \in BOOLEAN : ForwarderDial(ch, ok))
          /\ WF_vars(ForwarderClose(ch))


NextReader ==
    \/ \E len \in 0..MaxChunkLen : ReaderFeed(len)
    \/ ReaderUpstreamCloses
    \/ \E remaining \in 1..MaxBuf : ReaderPoll(remaining)
    \/ ReaderOtherWake

SpecReader == Init /\ [][NextReader]_vars

\* a scheduled task is polled; nothing else is forced
FairSpecReader ==
    SpecReader /\ WF_vars(\E remaining \in 1..MaxBuf : ReaderPoll(remaining))


\* a reader task that is polled only when it starts and when a waker
\* registered by its own reads is woken
NextOwnWakes ==
    \/ \E len \in 0..MaxChunkLen : ReaderFeed(len)
    \/ ReaderUpstreamCloses
    \/ \E remaining \in 1..MaxBuf : ReaderPoll(remaining)

SpecOwnWakes == Init /\ [][NextOwnWakes]_vars

FairSpecOwnWakes ==
    SpecOwnWakes /\ WF_vars(\E remaining \in 1..MaxBuf : ReaderPoll(remaining))

\* holders of raw receivers that take connections or drop the receiver,
\* a caller adding ports again, client sessions in their main loop and
\* remote clients opening forwarded-tcpip channels; no port is removed,
\* so every add_port_raw ends at its duplicate check
NextDrop ==
    \/ \E ch \in 1..Cardinality(Ports) : DropReceiver(ch)
    \/ \E ch \in 1..Cardinality(Ports) : PortReceiverRecv(ch)
    \/ \E n \in Ports : AddPortRawCall(1, n)
    \/ \E s \in Sessions : Reconcile(s)
    \/ \E s \in Sessions, p \in Ports : ReconcileSend(s, p, TRUE)
    \/ \E s \in Sessions, p \in Ports : channel_open_forwarded_tcpip(s, p)
    \/ \E s \in Sessions : RouteConnection(s)
    \/ \E s \in Sessions : SessionWrites(s)

SpecDrop == InitRoute /\ [][NextDrop]_vars


\* client sessions that come and go on relay sessions made by successive
\* connect() calls; the ports were added before the first connect() and
\* the caller may still remove one
NextReconnect ==
    \/ ConnectedAgain
    \/ \E n \in Ports : RemovePortCall(1, n)
    \/ RemovePortAuth(1, TRUE)
    \/ \E st \in {200, 500} : RemovePortResume(1, st)
    \/ \E s \in Sessions : ChannelOpOpen(s)
    \/ \E s \in Sessions : RunStreamHandshakeErr(s)
    \/ \E s \in Sessions : RunStreamHandshakeOk(s)
    \/ \E s \in Sessions : auth_succeeded(s)
    \/ \E s \in Sessions : SessionEnds(s)
    \/ \E s \in Sessions : ClosedBeforeAuth(s)
    \/ \E s \in Sessions : EnterMainLoop(s)
    \/ \E s \in Sessions, r \in {"Ok", "Err"} : SessionDone(s, r)
    \/ \E s \in Sessions : NoMoreConnections(s)
    \/ \E s \in Sessions : Reconcile(s)
    \/ \E s \in Sessions, p \in Ports : ReconcileSend(s, p, TRUE)
    \/ \E s \in Sessions : SessionWrites(s)

SpecReconnect == InitReconnect /\ [][NextReconnect]_vars

\* as in FairSpecFwd: the ports.changed() arm stays ready until taken
FairSpecReconnect ==
    /\ SpecReconnect
    /\ \A s \in Sessions : WF_vars(SessionWrites(s))
    /\ \A s \in Sessions :
          /\ WF_vars(Reconcile(s))
          /\ WF_vars(\E p \in Ports : ReconcileSend(s, p, TRUE))


\* one caller adding and removing ports while connect() calls are made
NextConnect ==
    \/ ConnectCall
    \/ \E r \in {"Ok", "Err"}, uri \in {"none", "invalid", "valid"} :
          ConnectEndpointUpdated(r, uri)
    \/ \E ok \in BOOLEAN : ConnectWebSocket(ok)
    \/ \E ok \in BOOLEAN : ConnectSsh(ok)
    \/ \E n \in Ports : AddPortRawCall(1, n)
    \/ AddPortRawAuth(1, TRUE)
    \/ \E st \in {200, 500} : AddPortRawResume(1, st, "json")
    \/ \E n \in Ports : RemovePortCall(1, n)
    \/ RemovePortAuth(1, TRUE)
    \/ \E st \in Statuses : RemovePortResume(1, st)
    \/ \E auth \in BOOLEAN, st \in Statuses : Unregister(auth, st)

SpecConnect == Init /\ [][NextConnect]_vars


\* the pumps of the routing specification with clients that close their
\* channels and client sessions that end
NextClose ==
    \/ \E s \in Sessions, p \in Ports : channel_open_forwarded_tcpip(s, p)
    \/ \E s \in Sessions : RouteConnection(s)
    \/ \E s \in Sessions, c \in 1..MaxConns : data(s, c)
    \/ \E s \in Sessions, c \in 1..MaxConns : ChannelCloseByClient(s, c)
    \/ \E s \in Sessions : SessionEnds(s)
    \/ \E s \in Sessions, r \in {"Ok", "Err"} : SessionDone(s, r)
    \/ \E s \in Sessions : NoMoreConnections(s)
    \/ \E ch \in 1..Cardinality(Ports) : ForwarderRecv(ch)
    \/ \E ch \in 1..Cardinality(Ports), ok \in BOOLEAN : ForwarderDial(ch, ok)
    \/ \E ch \in 1..Cardinality(Ports) : ForwarderClose(ch)
    \/ \E k \in 1..MaxConns : PumpRecv(k)
    \/ \E k \in 1..MaxConns : PumpWriteDone(k)
    \/ \E k \in 1..MaxConns : PumpRecvNone(k)
    \/ \E k \in 1..MaxConns : PumpEnds(k)
    \/ \E s \in Sessions : SessionWrites(s)

SpecClose == InitPump /\ [][NextClose]_vars

\* a pump task is polled when its queue has a chunk or has ended; the
\* local TCP peer may stay silent for ever
FairSpecClose ==
    /\ SpecClose
    /\ \A s \in Sessions : WF_vars(SessionWrites(s))
    /\ \A k \in 1..MaxConns :
          /\ WF_vars(PumpRecv(k))
          /\ WF_vars(PumpWriteDone(k))
          /\ WF_vars(PumpRecvNone(k))


\* one pump between a client that sends and a local server that answers
NextBackpressure ==
    \/ \E s \in Sessions, c \in 1..MaxConns : data(s, c)
    \/ \E s \in Sessions : SessionWrites(s)
    \/ \E k \in 1..MaxConns : PumpRecv(k)
    \/ \E k \in 1..MaxConns : PumpWriteDone(k)
    \/ \E k \in 1..MaxConns : TcpRead(k)
    \/ \E k \in 1..MaxConns : SendCompletes(k)

SpecBackpressure == InitBackpressure /\ [][NextBackpressure]_vars

\* every task is polled when what it waits for is there: the pump when
\* its queue has a chunk or the Handle queue has room, the session when
\* its callback can go on or a message is queued
FairSpecBackpressure ==
    /\ SpecBackpressure
    /\ \A k \in 1..MaxConns :
          /\ WF_vars(PumpRecv(k))
          /\ WF_vars(PumpWriteDone(k))
          /\ WF_vars(SendCompletes(k))
    /\ \A s \in Sessions :
          /\ WF_vars(SessionWrites(s))
          /\ WF_vars(\E c \in 1..MaxConns : data(s, c))


\* the state of InitData when the client of session 1 has opened a second
\* forwarded-tcpip channel for port 8080 and the holder of the port's
\* receiver has taken that connection too; the client is about to send
\* a burst on both channels
InitStall ==
    /\ InitRoute!1 /\ InitRoute!2 /\ InitRoute!3 /\ InitRoute!4 /\ InitRoute!5
    /\ InitRoute!6 /\ InitRoute!7 /\ InitRoute!8
    /\ sess = [s \in Sessions |->
                 IF s = 1
                 THEN [ServingSession EXCEPT !.channel_senders = (1 :> 1) @@ (2 :> 2),
                                             !.next_channel = 3]
                 ELSE AuthedSession]
    /\ conns = [k \in 1..2 |->
                 [sess |-> 1, channel |-> k, port |-> 8080, inq |-> <<>>,
                  wbuf |-> <<>>, got |-> <<>>, cb |-> <<>>, via |-> 1, reads |-> 0,
                  st |-> "received"]]
    /\ connsLeft = MaxFwdConns
    /\ dataLeft = MaxBurst
    /\ ws = NewWebSocket
    /\ relay = NewRelay
    /\ fwd = NoForwarders
    /\ rd = NewReader
    /\ host = NewHost
    /\ wr = NewWriter

\* the client of session 1 sending on its first two channels and opening
\* further ones; the consumer of the first connection never calls recv(),
\* the consumer of the second does
NextStall ==
    \/ \E c \in 1..2 : data(1, c)
    \/ ConnectionRecv(2)
    \/ \E p \in Ports : channel_open_forwarded_tcpip(1, p)

SpecStall == InitStall /\ [][NextStall]_vars


\* the outer session's channels: open requests of every type, payloads
\* with and without bytes, closes, the dispatcher and the client session
\* tasks
NextChan ==
    \/ \E c \in Channels, ty \in ChannelTypes : ChannelOpenRequest(c, ty)
    \/ \E c \in Channels : HandlerData(c)
    \/ \E c \in Channels : HandlerDataEmpty(c)
    \/ \E c \in Channels : HandlerClose(c)
    \/ DispatcherRecv
    \/ \E c \in Channels : ClientRead(c)
    \/ \E c \in Channels : ClientOtherWake(c)
    \/ \E c \in Channels : ClientSeesEof(c)
    \/ \E c \in Channels : ClientFails(c)

SpecChan == Init /\ [][NextChan]_vars

\* the dispatcher and the client session tasks run when they were woken
FairSpecChan ==
    /\ SpecChan
    /\ WF_vars(DispatcherRecv)
    /\ \A c \in Channels : WF_vars(ClientRead(c)) /\ WF_vars(ClientSeesEof(c))


\* client sessions from their start, with the facade removing ports and
\* remote clients opening forwarded-tcpip channels
NextAuth ==
    \/ \E n \in Ports : RemovePortCall(1, n)
    \/ RemovePortAuth(1, TRUE)
    \/ RemovePortResume(1, 200)
    \/ \E s \in Sessions : ChannelOpOpen(s)
    \/ \E s \in Sessions : RunStreamHandshakeErr(s)
    \/ \E s \in Sessions : RunStreamHandshakeOk(s)
    \/ \E s \in Sessions : auth_succeeded(s)
    \/ \E s \in Sessions : SessionEnds(s)
    \/ \E s \in Sessions : ClosedBeforeAuth(s)
    \/ \E s \in Sessions : EnterMainLoop(s)
    \/ \E s \in Sessions, r \in {"Ok", "Err"} : SessionDone(s, r)
    \/ \E s \in Sessions : NoMoreConnections(s)
    \/ \E s \in Sessions : Reconcile(s)
    \/ \E s \in Sessions, p \in Ports : ReconcileSend(s, p, TRUE)
    \/ \E s \in Sessions, p \in Ports : channel_open_forwarded_tcpip(s, p)
    \/ \E s \in Sessions : RouteConnection(s)
    \/ \E s \in Sessions : SessionWrites(s)

SpecAuth == InitAuth /\ [][NextAuth]_vars

\* reconciliation passes whose requests may fail, while one caller adds
\* and removes ports
NextSwallow ==
    \/ \E n \in Ports : AddPortRawCall(1, n)
    \/ AddPortRawAuth(1, TRUE)
    \/ AddPortRawResume(1, 200, "json")
    \/ \E n \in Ports : RemovePortCall(1, n)
    \/ RemovePortAuth(1, TRUE)
    \/ RemovePortResume(1, 200)
    \/ \E s \in Sessions : SessionEnds(s)
    \/ \E s \in Sessions : SessionDone(s, "Ok")
    \/ \E s \in Sessions : NoMoreConnections(s)
    \/ \E s \in Sessions : Reconcile(s)
    \/ \E s \in Sessions, p \in Ports, ok \in BOOLEAN : ReconcileSend(s, p, ok)
    \/ \E s \in Sessions : SessionWrites(s)

SpecSwallow == InitSwallow /\ [][NextSwallow]_vars

\* a task writing to a channel adapter, flushing and shutting it down
\* while the read half of the same channel is fed whole chunks and read
\* with a buffer that takes one
NextWrite ==
    \/ \E b \in 1..MaxWrites, outcome \in WriteOutcomeKinds : WriterPollWrite(b, outcome)
    \/ \E outcome \in WriteOutcomeKinds : WriterPollFlush(outcome)
    \/ WriterPollShutdown
    \/ ReaderFeed(MaxChunkLen)
    \/ ReaderPoll(MaxBuf)

SpecWrite == InitWrite /\ [][NextWrite]_vars

\* a WebSocket adapter whose reader has read a close message
ClosedWebSocket ==
    poll_read([NewWebSocket EXCEPT !.inbound = <<"Close">>, !.framesLeft = @ - 1],
              "Ok", "Ok", FALSE)

\* the state after HostRelay::new with either one channel adapter built
\* and the WebSocket closed, or the WebSocket adapter open and no channel
\* adapter built
InitFutures ==
    /\ InitWrite!1 /\ InitWrite!2 /\ InitWrite!3 /\ InitWrite!4 /\ InitWrite!5
    /\ InitWrite!6 /\ InitWrite!7 /\ InitWrite!8 /\ InitWrite!9 /\ InitWrite!10
    /\ InitWrite!11 /\ InitWrite!12
    /\ relay = NewRelay
    /\ fwd = NoForwarders
    /\ rd = NewReader
    /\ host = NewHost
    /\ \/ /\ ws = ClosedWebSocket
          /\ wr \in {[NewWriter EXCEPT !.adapter = a, !.retrying = r] :
                        a \in Adapters, r \in BOOLEAN}
       \/ /\ ws = NewWebSocket
          /\ wr = NoWriter

\* a task writing to a channel adapter, flushing and shutting it down;
\* the reader of the WebSocket adapter, its timer and its socket
NextFutures ==
    \/ \E b \in 1..MaxWrites, outcome \in WriteOutcomeKinds : WriterPollWrite(b, outcome)
    \/ \E outcome \in WriteOutcomeKinds : WriterPollFlush(outcome)
    \/ WriterPollShutdown
    \/ \E ro, fo \in WriteOutcomes, more \in BOOLEAN : WsPollRead(ro, fo, more)
    \/ \E f \in Frames : WsFrameArrives(f)
    \/ WsTimerFires
    \/ WsWritable

SpecFutures == InitFutures /\ [][NextFutures]_vars


SpecSess == Init /\ [][NextSess]_vars

SpecRoute == InitRoute /\ [][NextRoute]_vars

\* ============================================================ claims
\* the kind of the most recent successful call on port p
LastOk(p) == IF phist[p] = <<>> THEN "none" ELSE Last(phist[p]).op

\* C1: after any sequence of add_port_raw and remove_port calls that do
\* not overlap, the keys of the desired-port map are exactly the ports
\* whose most recent successful call was an add_port_raw (calls that
\* return an error leave no trace in the map).
C1_KeysAreLastSuccessfulAdds ==
    ~overlapped => DOMAIN ports = {p \in Ports : LastOk(p) = "add"}

\* a port was added and removed again, another port is registered and
\* some call has returned an error, all without overlap
C1_Witness ==
    /\ ~overlapped
    /\ \E p \in Ports : Len(phist[p]) >= 2 /\ LastOk(p) = "remove"
    /\ \E c \in Callers : call[c].pc = "done" /\ call[c].result.kind # "Ok"

\* C2: add_port_raw(n) while n is a key of the desired-port map returns
\* PortAlreadyExists(n), leaves the map (and the sender stored for n)
\* unchanged and issues no create_tunnel_port request.
C2_DuplicateAddRejected ==
    [][\A c \in Callers, n \in Ports :
         (AddPortRawCall(c, n) /\ n \in DOMAIN ports)
            => /\ call'[c].pc = "done"
               /\ call'[c].result = PortAlreadyExists(n)
               /\ ports' = ports
               /\ version' = version
               /\ chans' = chans
               /\ mgmt' = mgmt]_vars

C2_Witness ==
    \E c \in Callers :
        /\ call[c].pc = "done"
        /\ call[c].result.kind = "PortAlreadyExists"
        /\ call[c].port \in DOMAIN ports
        /\ mgmt.create = 1

\* C3: of two overlapping add_port_raw calls for the same port at most
\* one returns a receiver: an add that resumes from its management call
\* while the port has meanwhile been registered fails with
\* PortAlreadyExists and does not replace the stored sender.
C3_OverlappingAddsExclusive ==
    [][\A c \in Callers, st \in Statuses, body \in Bodies :
         (AddPortRawResume(c, st, body) /\ call[c].port \in DOMAIN ports)
            => /\ call'[c].result = PortAlreadyExists(call[c].port)
               /\ ports' = ports]_vars

\* C4: when the management call of add_port_raw fails with anything but
\* HTTP 409, or the management call of remove_port fails, the operation
\* returns HttpError, the desired-port map is what it was and the watch
\* version is not bumped (no session is notified); a call whose
\* authorization provider fails returns the same error without a request
\* having been issued, and the part of a call before its management
\* request does not touch the map either.
C4_FailedCallChangesNothing ==
    [][/\ \A c \in Callers, st \in Statuses \ {409}, body \in Bodies :
            (AddPortRawResume(c, st, body) /\ ~(st = 200 /\ body = "json"))
               => /\ call'[c].result = HttpError("failed to add port to tunnel")
                  /\ ports' = ports /\ version' = version /\ chans' = chans
       /\ \A c \in Callers :
            AddPortRawAuth(c, FALSE)
               => /\ call'[c].pc = "done"
                  /\ call'[c].result = HttpError("failed to add port to tunnel")
                  /\ mgmt' = mgmt
       /\ \A c \in Callers :
            RemovePortAuth(c, FALSE)
               => /\ call'[c].pc = "done"
                  /\ call'[c].result = HttpError("failed to remove port from tunnel")
                  /\ mgmt' = mgmt
       /\ \A c \in Callers, st \in Statuses \ {200, 404} :
            RemovePortResume(c, st)
               => /\ call'[c].result = HttpError("failed to remove port from tunnel")
                  /\ ports' = ports /\ version' = version /\ chans' = chans
       /\ \A c \in Callers, n \in Ports, auth \in BOOLEAN :
            (\/ AddPortRawCall(c, n) \/ AddPortRawAuth(c, auth)
             \/ RemovePortCall(c, n) \/ RemovePortAuth(c, auth))
               => ports' = ports /\ version' = version /\ chans' = chans]_vars

\* a remove_port failed for a registered port, which is still registered,
\* and an add_port_raw failed for a port, which is not registered
C4_Witness ==
    \E c, d \in Callers :
        /\ call[c].pc = "done" /\ call[c].op = "remove"
        /\ call[c].result.kind = "HttpError" /\ call[c].port \in DOMAIN ports
        /\ call[d].pc = "done" /\ call[d].op = "add"
        /\ call[d].result.kind = "HttpError" /\ call[d].port \notin DOMAIN ports

\* what a successful add_port_raw of caller c leaves behind: the result
\* is a receiver whose sender is the one now stored for the port, every
\* other entry is untouched and the watch version is bumped once
AddSucceeded(c) ==
    LET n == call[c].port
    IN /\ call'[c].result.kind = "Ok"
       /\ call'[c].result.val = Len(chans) + 1
       /\ DOMAIN ports' = DOMAIN ports \cup {n}
       /\ ports'[n] = call'[c].result.val
       /\ \A q \in DOMAIN ports \ {n} : ports'[q] = ports[q]
       /\ chans'[ports'[n]] = [port |-> n, q |-> <<>>, rx |-> TRUE]
       /\ version' = version + 1

\* C5: add_port_raw(n) for a port not in the map, when create_tunnel_port
\* answers HTTP 409, returns a receiver and inserts n exactly as it does
\* when create_tunnel_port succeeds.
C5_ConflictIsSuccess ==
    [][\A c \in Callers, body \in Bodies :
         (AddPortRawResume(c, 409, body) \/ AddPortRawResume(c, 200, "json"))
            => AddSucceeded(c)]_vars

C5_Witness ==
    \E c \in Callers :
        /\ call[c].pc = "done" /\ call[c].op = "add" /\ call[c].status = 409
        /\ call[c].result.kind = "Ok"
        /\ call[c].port \in DOMAIN ports
        /\ ports[call[c].port] = call[c].result.val

\* C6: remove_port(n), when the service answers 404 for the port, returns
\* Ok and removes n from the desired-port map, the same as when the
\* service deleted the port.
C6_NotFoundStillRemoves ==
    [][\A c \in Callers, st \in {200, 404} :
         RemovePortResume(c, st)
            => /\ call'[c].result = OkUnit
               /\ DOMAIN ports' = DOMAIN ports \ {call[c].port}
               /\ \A q \in DOMAIN ports' : ports'[q] = ports[q]
               /\ version' = version + 1]_vars

\* a remove_port answered with 404 returned Ok for a port that had been
\* added before and is gone now
C6_Witness ==
    \E c \in Callers :
        /\ call[c].pc = "done" /\ call[c].op = "remove" /\ call[c].status = 404
        /\ call[c].result.kind = "Ok"
        /\ Len(phist[call[c].port]) >= 2
        /\ call[c].port \notin DOMAIN ports
\* the last three successful calls on port p are add, remove, add
ReAdded(p) ==
    /\ Len(phist[p]) >= 3
    /\ phist[p][Len(phist[p]) - 2].op = "add"
    /\ phist[p][Len(phist[p]) - 1].op = "remove"
    /\ phist[p][Len(phist[p])].op = "add"

\* the receivers returned by the first and by the second add of a re-add
FirstRx(p) == phist[p][Len(phist[p]) - 2].rx

FreshRx(p) == phist[p][Len(phist[p])].rx

\* every step of add; remove; add succeeds when the service accepts it:
\* an add of a port whose last successful call was not an add passes the
\* duplicate check, and the accepted calls return Ok, the add with a
\* receiver that no earlier add of the port returned
ReAddStepsSucceed ==
    /\ \A c \in Callers, n \in Ports :
         (AddPortRawCall(c, n) /\ LastOk(n) # "add") => call'[c].pc = "auth"
    /\ \A c \in Callers : AddPortRawAuth(c, TRUE) => call'[c].pc = "await"
    /\ \A c \in Callers :
         AddPortRawResume(c, 200, "json")
            => /\ call'[c].result.kind = "Ok"
               /\ \A i \in 1..Len(phist[call[c].port]) :
                     phist[call[c].port][i].rx # call'[c].result.val
    /\ \A c \in Callers : RemovePortResume(c, 200) => call'[c].result = OkUnit

\* after add; remove; add of p the map holds the fresh sender, and a
\* session that has taken a snapshot since the second add sends the
\* connections for p to the fresh receiver, not to the first one
ReAddRoutesToFresh ==
    \A p \in Ports :
        ReAdded(p) =>
            /\ FreshRx(p) # FirstRx(p)
            /\ ports[p] = FreshRx(p)
            /\ \A s \in Sessions :
                 (sess[s].pc = "main" /\ sess[s].seen >= Last(phist[p]).ver)
                    => RouteTarget(sess[s].known_ports, p) = FreshRx(p)

\* C7: add_port_raw(n); remove_port(n); add_port_raw(n) succeeds at every
\* step, the second add returns a fresh receiver, and once a session has
\* reconciled after the second add the connections for n on that session
\* go to the fresh receiver and not to the one of the first add.
C7_ReAddAfterRemove == [][ReAddStepsSucceed]_vars /\ []ReAddRoutesToFresh

\* a session that forwarded p after the first add and missed the removal
\* (remove and second add coalesced) now holds the fresh sender
C7_Witness ==
    \E p \in Ports, s \in Sessions :
        /\ ReAdded(p)
        /\ InMainLoop(s)
        /\ sess[s].seen = version
        /\ sess[s].reqs[p] = <<"F">>
        /\ sess[s].known_ports[p] = FreshRx(p)

\* the session advertises exactly the keys of the map: a forward was
\* accepted for each of them, and no other port has a forward in force,
\* the cancel of every other port that was forwarded having been written
\* to the client and not come back as Err
AdvertisesExactly(s) ==
    LET written(p) ==
            SelectSeq(sess[s].wire, LAMBDA m : m.op \in {"F", "C"} /\ m.id = p)
    IN /\ Accepted(s) = DOMAIN ports
       /\ ForwardRequested(s) = DOMAIN ports
       /\ \A p \in Ports \ DOMAIN ports :
             /\ Len(written(p)) = Len(sess[s].reqs[p])
             /\ p \notin sess[s].refused

\* once the map has stopped changing, every session in its main loop ends
\* up back at its select, advertising exactly the keys of the map and
\* having seen the last version
ConvergesToMap ==
    <>[][FALSE]_version
       => <>[](\A s \in Sessions :
                  InMainLoop(s) => /\ AtSelect(s)
                                   /\ sess[s].seen = version
                                   /\ AdvertisesExactly(s))

\* a session that is through with its passes and advertises exactly the
\* keys of the map sends no request in a step that leaves the map alone
QuietWhenConverged ==
    \A s \in Sessions :
        (AtSelect(s) /\ AdvertisesExactly(s) /\ ports' = ports)
           => /\ sess'[s].reqs = sess[s].reqs
              /\ sess'[s].pc = "main"

\* C8: once the desired-port map stops changing at M, every authenticated
\* session eventually advertises exactly keys(M) and then sends no further
\* tcpip-forward or cancel-tcpip-forward until the map changes again.
C8_ReconcilesToDesired == ConvergesToMap /\ [][QuietWhenConverged]_vars

\* a session that has caught up with the map has sent, for a port added
\* once, one forward and nothing else, and for a port added and then
\* removed, nothing or one forward followed by one cancel
CaughtUpRequests ==
    \A s \in Sessions, p \in Ports :
        (AtSelect(s) /\ sess[s].seen = version) =>
            /\ (Len(phist[p]) = 1 /\ phist[p][1].op = "add")
                  => sess[s].reqs[p] = <<"F">>
            /\ (Len(phist[p]) = 2 /\ phist[p][1].op = "add" /\ phist[p][2].op = "remove")
                  => (sess[s].reqs[p] = <<>> \/ sess[s].reqs[p] = <<"F", "C">>)

\* the step that ends a pass of a live session
PassEnds(s) == InPass(s) /\ sess[s].alive /\ sess'[s].pc = "main"

\* the ports that were advertised when the pass under way began
AdvertisedBefore(s) ==
    {p \in Ports : sess[s].pass.before[p] # <<>> /\ Last(sess[s].pass.before[p]) = "F"}

\* a pass of a live session has sent, when it ends, exactly one forward
\* for a port that is in the map it read and was not advertised, exactly
\* one cancel for a port that was advertised and is not in that map, and
\* nothing for any other port; outside a pass no request is sent
OneRequestPerChange ==
    \A s \in Sessions :
        /\ PassEnds(s) =>
              \A p \in Ports :
                 sess'[s].reqs[p] =
                    IF p \in DOMAIN sess[s].pass.new_ports /\ p \notin AdvertisedBefore(s)
                    THEN Append(sess[s].pass.before[p], "F")
                    ELSE IF p \in AdvertisedBefore(s) /\ p \notin DOMAIN sess[s].pass.new_ports
                    THEN Append(sess[s].pass.before[p], "C")
                    ELSE sess[s].pass.before[p]
        /\ ~InPass(s) => sess'[s].reqs = sess[s].reqs

\* C9: with a session in its main loop, a successful add_port_raw(p)
\* followed by quiescence makes the session send exactly one tcpip-forward
\* for p, and a following successful remove_port(p) makes it send exactly
\* one cancel-tcpip-forward for p.
C9_OneForwardOneCancel == []CaughtUpRequests /\ [][OneRequestPerChange]_vars

C9_Witness ==
    \E s \in Sessions, p \in Ports :
        /\ AtSelect(s)
        /\ sess[s].seen = version
        /\ Len(phist[p]) = 2 /\ phist[p][1].op = "add" /\ phist[p][2].op = "remove"
        /\ sess[s].reqs[p] = <<"F", "C">>

\* the chunks of a queue all come from data callbacks of channel ch of
\* session s
ChunksFrom(q, s, ch) == \A i \in 1..Len(q) : q[i][1] = s /\ q[i][2] = ch

\* C10: a connection queued on or taken from the receiver returned by
\* add_port_raw(p) was created by a forwarded-tcpip open with target port
\* p, and every chunk queued for it or returned by its recv() came from a
\* data callback of its own channel on its own session.
C10_ConnectionsMatchPort ==
    \A k \in 1..Len(conns) :
        /\ conns[k].via # 0 => chans[conns[k].via].port = conns[k].port
        /\ ChunksFrom(conns[k].inq, conns[k].sess, conns[k].channel)
        /\ ChunksFrom(conns[k].got, conns[k].sess, conns[k].channel)

\* a consumer has read a chunk from a connection it took from a port's
\* receiver while a connection for the other port exists on the session
C10_Witness ==
    \E k, j \in 1..Len(conns) :
        /\ conns[k].st = "received"
        /\ conns[k].got # <<>>
        /\ conns[j].port # conns[k].port
        /\ conns[j].sess = conns[k].sess
        /\ conns[j].via # 0
\* a is an initial segment of b
IsPrefix(a, b) == Len(a) <= Len(b) /\ \A i \in 1..Len(a) : a[i] = b[i]

\* C11: for every ForwardedPortConnection the chunks returned by recv()
\* are a prefix of the data callbacks of its channel, in their order, and
\* while its receiver is alive the chunks returned followed by the chunks
\* still queued are exactly the callbacks: none dropped, duplicated or
\* reordered.
C11_RecvIsPrefixOfCallbacks ==
    \A k \in 1..Len(conns) :
        /\ IsPrefix(conns[k].got, conns[k].cb)
        /\ ReceiverAlive(k) => conns[k].got \o conns[k].inq = conns[k].cb

\* recv() has returned two chunks of one connection
C11_Witness == \E k \in 1..Len(conns) : Len(conns[k].got) >= 2
\* C12 as stated: when the inbound frames stop (they do in every
\* behaviour, the relay sends finitely many), the adapter signals EOF to
\* its reader, and it does so exactly once.
C12_EofOnSilence == <>(ws.result = "EOF") /\ [](ws.eofs <= 1)

\* C12, amended: when the inbound frames stop, the read side of the
\* adapter ends: the reader gets EOF, exactly once, unless sending the
\* ping fails, in which case the read completes with that error instead;
\* a read fails only after a failed send.
C12_ReadSideEnds ==
    /\ <>(ws.result = "EOF" \/ ws.wfailed)
    /\ [](ws.eofs <= 1)
    /\ [](ws.result = "Err" => ws.wfailed)

\* the timer has fired twice without a frame in between: a ping was sent,
\* no pong came and the reader got EOF
C12_Witness ==
    /\ ws.result = "EOF"
    /\ ws.eofs = 1
    /\ ws.pings >= 1
    /\ ws.ping_state = "WaitingForPong"
    /\ ws.fired

\* C13: a RelayHandle awaited on a session that ended of a transport
\* failure resolves to Err(TunnelRelayDisconnected), and it resolves to
\* Ok(()) only when the session ended gracefully.
C13_FailureYieldsError ==
    relay.handle = "resolved" =>
        /\ relay.why = "failure" => relay.hres = "TunnelRelayDisconnected"
        /\ relay.hres = "Ok" => relay.why = "remote"

\* C14: once the RelayHandle is dropped without close(), the session is
\* disconnected: its dispatcher task stops and none of its client session
\* tasks keeps running.
C14_DropDisconnects ==
    (relay.handle = "dropped") ~>
        (/\ relay.disp = "done"
         /\ relay.outer = "down"
         /\ \A c \in Channels : relay.cli[c].task # "running")

\* C15: close() on a healthy session has sent Disconnect(ByApplication,
\* "disconnect") by the time it waits for the dispatcher, returns only
\* after the dispatcher finished, always returns, and returns Ok(()) with
\* no client session task of the session still running.
HealthyClose == relay.why = "close"

C15_CloseWaitsForTasks ==
    /\ [](relay.handle = "closing" /\ HealthyClose
            => relay.disconnects = <<"disconnect">>)
    /\ [](relay.handle = "closed" => relay.disp = "done")
    /\ (relay.handle = "closing") ~> (relay.handle = "closed")
    /\ [](relay.handle = "closed" /\ HealthyClose
            => /\ relay.hres = "Ok"
               /\ \A c \in Channels : relay.cli[c].task # "running")

\* C17: a failing client session never ends the dispatcher and never
\* stops, delays for ever or corrupts the delivery of outer-channel data
\* to another client session: the dispatcher leaves its loop only when
\* the outer session is gone; what a running client session has read and
\* has queued is, in order, the data the handler got for its channel, the
\* rest still being in the dispatcher's queue; a failure changes nothing
\* of the dispatcher or of another session; and every session that has
\* not ended keeps catching up with the data sent to it.
ClientLive(c) ==
    relay.cli[c].opened /\ relay.cli[c].task \in {"none", "running"}

DeliveredInOrder ==
    \A c \in Channels :
        relay.cli[c].task = "running" =>
            /\ IsPrefix(relay.cli[c].got \o relay.cli[c].incoming, relay.cli[c].sent)
            /\ c \in relay.channels =>
                 relay.cli[c].got \o relay.cli[c].incoming
                    \o QueuedData(relay.rx, c) = relay.cli[c].sent

FailureIsLocal ==
    \A c \in Channels :
        relay.cli[c].task = "running" /\ relay'.cli[c].task = "failed" =>
            /\ relay'.disp = relay.disp
            /\ relay'.rx = relay.rx
            /\ relay'.channels = relay.channels
            /\ \A o \in Channels \ {c} : relay'.cli[o] = relay.cli[o]

C17_ClientFailureIsolated ==
    /\ [](relay.disp # "loop" => relay.outer = "down")
    /\ []DeliveredInOrder
    /\ [][FailureIsLocal]_vars
    /\ []<>(\A c \in Channels :
              ClientLive(c) => relay.cli[c].got = relay.cli[c].sent)

C17_Witness ==
    \E c, o \in Channels :
        /\ c # o
        /\ relay.cli[c].task = "failed"
        /\ relay.cli[c].sent # <<>> /\ ~relay.cli[c].closed
        /\ c \notin relay.channels
        /\ relay.cli[o].task = "running"
        /\ relay.cli[o].got # <<>>
        /\ relay.cli[o].got = relay.cli[o].sent
        /\ relay.disp = "loop"

\* C16: once remove_port(n) has succeeded, the receiver that add_port
\* created for n observes end-of-stream, after the connections queued on
\* it were taken and not before the removal, also while client sessions
\* that had n in their known_ports are live; the forward_port_to_tcp loop
\* of n then ends.
Removed(ch) == \A n \in DOMAIN ports : ports[n] # ch

ForwarderEnded(ch) == ch \in DOMAIN fwd.loop /\ fwd.loop[ch].pc = "ended"

C16_RemovedPortReceiverEnds ==
    /\ \A ch \in ForwarderIds :
          (ch \in DOMAIN fwd.loop /\ Removed(ch)) ~> ForwarderEnded(ch)
    /\ [](\A ch \in DOMAIN fwd.loop :
            ForwarderEnded(ch) =>
                /\ Removed(ch)
                /\ chans[ch].q = <<>>
                /\ \A k \in 1..Len(conns) :
                      conns[k].via = ch => conns[k].st \notin {"queued", "dialling"})

\* C18: a failed dial closes the one forwarded channel it was for and the
\* forwarder keeps serving: the loop is back at its receive with its
\* queue untouched, no other connection or pump changes, connections that
\* arrive later are still taken and dialled, and a running pump still
\* gets, in order, the data sent to its connection.
DialFailureStep(ch) ==
    /\ fwd.loop[ch].pc = "dial"
    /\ fwd'.loop[ch].pc = "close"

\* the step in which conn.close().await returns after a failed dial
CloseAfterDialStep(ch) ==
    /\ fwd.loop[ch].pc = "close"
    /\ fwd'.loop[ch].pc # "close"

\* a failed dial leaves everything but its own connection and forwarder
\* as it was; the close that follows hands one Close for the channel of
\* that connection to its session when the session is there, drops the
\* connection and puts the forwarder back at its receive
DialFailureIsLocal ==
    \A ch \in 1..Cardinality(Ports) :
        /\ DialFailureStep(ch) =>
              LET k == fwd.loop[ch].conn IN
              /\ fwd'.loop[ch].conn = k
              /\ fwd'.closed = fwd.closed
              /\ sess' = sess /\ chans' = chans
              /\ \A j \in 1..Len(conns) : j # k => conns'[j] = conns[j]
              /\ \A o \in 1..Cardinality(Ports) : o # ch => fwd'.loop[o] = fwd.loop[o]
        /\ CloseAfterDialStep(ch) =>
              LET k == fwd.loop[ch].conn
                  s == conns[k].sess
              IN
              /\ fwd'.closed = IF sess[s].alive THEN fwd.closed \cup {k} ELSE fwd.closed
              /\ sess'[s].hq = IF sess[s].alive
                               THEN Append(sess[s].hq, CloseMsg(conns[k].channel))
                               ELSE sess[s].hq
              /\ \A o \in Sessions : o # s => sess'[o] = sess[o]
              /\ conns'[k].st = "dropped"
              /\ fwd'.loop[ch] = NewForwarder
              /\ chans'[ch].rx /\ chans'[ch].q = chans[ch].q
              /\ \A j \in 1..Len(conns) : j # k => conns'[j] = conns[j]
              /\ \A o \in 1..Cardinality(Ports) : o # ch => fwd'.loop[o] = fwd.loop[o]

\* every Close handed to a session is written to its client
ClosesReachClient ==
    \A s \in Sessions, c \in 1..MaxConns :
        (sess[s].alive /\ \E i \in 1..Len(sess[s].hq) : sess[s].hq[i] = CloseMsg(c))
           ~> (\E i \in 1..Len(sess[s].wire) : sess[s].wire[i] = CloseMsg(c))

PumpsIntact ==
    \A k \in 1..Len(conns) :
        conns[k].st \in {"pumping", "writing"}
           => conns[k].got \o conns[k].wbuf \o conns[k].inq = conns[k].cb

C18_DialFailureClosesOne ==
    /\ [][DialFailureIsLocal]_vars
    /\ [](\A ch \in 1..Cardinality(Ports) : fwd.loop[ch].pc # "ended" /\ chans[ch].rx)
    /\ []PumpsIntact
    /\ []<>(\A ch \in 1..Cardinality(Ports) :
              chans[ch].q = <<>> /\ fwd.loop[ch].pc = "recv")
    /\ ClosesReachClient

\* C19: for chunks of any lengths and reads with buffers of any size from
\* one byte, the bytes the reads return are the concatenation of the
\* chunks in arrival order: what was returned, what the reader holds and
\* what is queued make up what was sent, every byte sent is returned in
\* the end, and no read reports EOF while the upstream is open.
RECURSIVE Concat(_)
Concat(q) == IF q = <<>> THEN <<>> ELSE Head(q) \o Concat(Tail(q))

NothingLostOrReordered ==
    rd.out \o rd.readbuf.v \o Concat(rd.receiver) = rd.fed

C19_ReadsConcatenateChunks ==
    /\ []NothingLostOrReordered
    /\ [](rd.open => rd.result \notin {"EOF", "Err"})
    /\ <>[](rd.out = rd.fed)

\* C20: dropping the receiver of port n removes nothing: n stays in the
\* desired-port map with the same sender, an add_port_raw(n) made after
\* the drop returns PortAlreadyExists(n), no client session cancels the
\* forwarding of n, and a connection that a session routes to the dropped
\* receiver is discarded while the session stays in its loop and the
\* dispatcher is untouched.
Dropped(ch) == ~chans[ch].rx

DroppedStaysRegistered ==
    \A ch \in 1..Cardinality(Ports) :
        Dropped(ch) =>
            /\ chans[ch].port \in DOMAIN ports
            /\ ports[chans[ch].port] = ch

NoCancelSent ==
    \A s \in Sessions, p \in Ports :
        \A i \in 1..Len(sess[s].reqs[p]) : sess[s].reqs[p][i] # "C"

AddAfterDropRejected ==
    \A ch \in 1..Cardinality(Ports) :
        (/\ Dropped(ch)
         /\ call'[1] # call[1]
         /\ call'[1].op = "add"
         /\ call'[1].port = chans[ch].port)
        => call'[1].result = PortAlreadyExists(chans[ch].port)

DiscardIsSilent ==
    \A s \in Sessions :
        (/\ sess[s].pc = "main"
         /\ sess[s].cnx_rx # <<>>
         /\ sess'[s].cnx_rx = Tail(sess[s].cnx_rx)
         /\ LET tx == RouteTarget(sess[s].known_ports, conns[Head(sess[s].cnx_rx)].port)
            IN tx # 0 /\ Dropped(tx))
        => /\ conns'[Head(sess[s].cnx_rx)].st = "dropped"
           /\ sess'[s] = [sess[s] EXCEPT !.cnx_rx = Tail(@)]
           /\ chans' = chans
           /\ relay' = relay

C20_DroppedReceiverKeepsPort ==
    /\ []DroppedStaysRegistered
    /\ []NoCancelSent
    /\ [][AddAfterDropRejected]_vars
    /\ [][DiscardIsSilent]_vars

C20_Witness ==
    \E ch \in 1..Cardinality(Ports) :
        /\ Dropped(ch)
        /\ call[1].result = PortAlreadyExists(chans[ch].port)
        /\ \E k \in 1..Len(conns) :
              /\ conns[k].port = chans[ch].port
              /\ conns[k].st = "dropped"
              /\ conns[k].via = 0
              /\ sess[conns[k].sess].pc = "main"
              /\ chans[ch].port \in ForwardRequested(conns[k].sess)

\* C21: a client session in its main loop, on the relay session of the
\* first connect() or of a later one, sends tcpip-forward for every port
\* that is in the desired-port map, unless the session ends or the port
\* is removed first; no add_port_raw or remove_port after the connect()
\* is needed for it.
C21_NewSessionForwardsAll ==
    \A s \in Sessions, p \in Ports :
        (InMainLoop(s) /\ p \in DOMAIN ports)
            ~> (p \in ForwardRequested(s) \/ ~InMainLoop(s) \/ p \notin DOMAIN ports)

C21_Witness ==
    /\ host.connected >= 2
    /\ version = 2
    /\ DOMAIN ports = Ports
    /\ \E s \in Sessions : InMainLoop(s) /\ ForwardRequested(s) = Ports

\* C22: connect() returns a RelayHandle only after the endpoint update,
\* the WebSocket connect and the outer SSH handshake were done in this
\* order and succeeded with a usable host_relay_uri; a call that fails at
\* a step returns the error of that step, has done none of the later
\* steps and has spawned no dispatcher; no step changes the desired-port
\* map.
StepsUpTo(step) ==
    CASE step = "update" -> <<"update">>
      [] step = "uri" -> <<"update">>
      [] step = "websocket" -> <<"update", "websocket">>
      [] step = "ssh" -> <<"update", "websocket", "ssh">>

ErrorKindsOf(step) ==
    CASE step = "update" -> {"HttpError"}
      [] step = "uri" -> {"MissingHostEndpoint", "InvalidHostEndpoint"}
      [] step = "websocket" -> {"WebSocketError"}
      [] step = "ssh" -> {"TunnelRelayDisconnected"}

ConnectReturned == host.pc = "idle" /\ host.result # NoResult

HandleOnlyAfterAllSteps ==
    ConnectReturned /\ host.result.kind = "RelayHandle" =>
        host.steps = ConnectSteps /\ host.failed = "none"

FailureReturnsItsError ==
    host.failed # "none" =>
        /\ ConnectReturned
        /\ host.result.kind \in ErrorKindsOf(host.failed)
        /\ host.steps = StepsUpTo(host.failed)
        /\ host.failed = "update" =>
             host.result.reason = "failed to update tunnel endpoint for hosting"

DispatcherOnlyWithHandle ==
    /\ host'.dispatchers # host.dispatchers =>
          /\ host'.dispatchers = host.dispatchers + 1
          /\ host'.result = OkHandle(host'.dispatchers)
          /\ host.steps = <<"update", "websocket", "ssh">>
    /\ host' # host => ports' = ports /\ version' = version /\ chans' = chans

C22_ConnectStepsInOrder ==
    /\ []HandleOnlyAfterAllSteps
    /\ []FailureReturnsItsError
    /\ [](host.dispatchers = host.connected)
    /\ [][DispatcherOnlyWithHandle]_vars

C22_Witness ==
    /\ host.connected = 1
    /\ host.failed = "websocket"
    /\ host.result = TunnelErr("WebSocketError")
    /\ host.dispatchers = 1
    /\ DOMAIN ports # {}

\* C23: delete_tunnel_port and delete_tunnel_endpoints give Ok(true) for a
\* success status, Ok(false) for 404 and an error for everything else;
\* unregister() returns the boolean as it is and turns only the error
\* into HttpError with the reason "could not unregister relay".
DeleteAnswer(r) == IF ~r.ok THEN "error" ELSE IF r.val THEN "true" ELSE "false"

ExpectedDelete(st) ==
    IF st >= 200 /\ st <= 299 THEN "true"
    ELSE IF st = 404 THEN "false"
    ELSE "error"

UnregisterReturned == host.unreg # NoResult

C23_DeleteResults ==
    /\ UnregisterReturned =>
          /\ DeleteAnswer(delete_tunnel_endpoints(TRUE, host.unregStatus))
                = ExpectedDelete(host.unregStatus)
          /\ host.unreg =
                IF ExpectedDelete(host.unregStatus) = "error"
                THEN HttpError("could not unregister relay")
                ELSE OkBool(ExpectedDelete(host.unregStatus) = "true")
    /\ \A c \in Callers :
          call[c].pc = "done" /\ call[c].op = "remove" =>
             /\ DeleteAnswer(delete_tunnel_port(TRUE, call[c].status))
                   = ExpectedDelete(call[c].status)
             /\ (call[c].result.kind = "HttpError")
                   = (ExpectedDelete(call[c].status) = "error")

C23_Witness ==
    /\ host.unreg = OkBool(FALSE)
    /\ host.unregStatus = 404
    /\ call[1].pc = "done" /\ call[1].op = "remove" /\ call[1].status = 404

\* C24: when the remote client closes a forwarded-tcpip channel and its
\* client session stays alive, recv() on the connection of that channel
\* returns None once the queued chunks are taken, so the pump of the
\* connection leaves its loop.
RemoteClosed(k) ==
    /\ k \in 1..Len(conns)
    /\ conns[k].st = "pumping"
    /\ conns[k].channel \in sess[conns[k].sess].remote_closed

PumpExited(k) == k \in 1..Len(conns) /\ conns[k].st = "dropped"

SessionGone(k) == k \in 1..Len(conns) /\ ~sess[conns[k].sess].alive

C24_RemoteCloseEndsRecv ==
    \A k \in 1..MaxConns : RemoteClosed(k) ~> (PumpExited(k) \/ SessionGone(k))

\* C25: a send on a connection, also while the remote client sends on
\* it, eventually completes, its bytes being handed to the inner session
\* once and in order; the pump is never stuck in a send while the
\* session is stuck waiting for room in the connection's inbound queue.
Sending(k) == k \in 1..Len(conns) /\ conns[k].st = "sending"

PumpAndSessionStuck(k) ==
    /\ Sending(k)
    /\ Len(sess[conns[k].sess].hq) = HandleCap
    /\ sess[conns[k].sess].waiting = conns[k].channel
    /\ Len(conns[k].inq) = QueueCap

HandedOverOnceInOrder(k) ==
    LET h == sess[conns[k].sess].wire \o sess[conns[k].sess].hq
    IN /\ \A i \in 1..Len(h) : h[i] = DataMsg(conns[k].channel, i)
       /\ Len(h) = IF Sending(k) THEN conns[k].reads - 1 ELSE conns[k].reads

C25_SendCompletesNoDeadlock ==
    /\ [](\A k \in 1..Len(conns) : HandedOverOnceInOrder(k))
    /\ \A k \in 1..MaxConns : Sending(k) ~> ~Sending(k)
    /\ [](\A k \in 1..Len(conns) : ~PumpAndSessionStuck(k))

\* C26: the liveness state starts at WillPing and changes only from
\* WillPing to SendingPing, from SendingPing to WaitingForPong and from
\* WaitingForPong to WillPing; a ping is enqueued only in WillPing, and
\* at most one ping is unanswered at any time.
PingMoves ==
    {<<"WillPing", "SendingPing">>, <<"SendingPing", "WaitingForPong">>,
     <<"WaitingForPong", "WillPing">>}

PingEnqueuedInWillPing ==
    ws'.pings # ws.pings =>
        /\ ws.ping_state = "WillPing"
        /\ ws'.pings = ws.pings + 1
        /\ ws.unanswered = 0

C26_PingStateCycle ==
    /\ [](ws.moves \subseteq PingMoves)
    /\ [](ws.unanswered <= 1)
    /\ [](ws.pings = 0 /\ ws.moves = {} => ws.ping_state = "WillPing")
    /\ [][PingEnqueuedInWillPing]_vars

C26_Witness ==
    /\ ws.moves = PingMoves
    /\ ws.pings = 2
    /\ ws.ping_state = "WaitingForPong"

\* C27: a read yields bytes only from the payload of a text or binary
\* message; a pong, a ping or another control message adds no bytes and
\* does not end the stream; a close message or the end of the message
\* stream yields EOF; a read error yields an I/O error.
Consumed == SubSeq(ws.inbound, 1, Len(ws.inbound) - Len(ws'.inbound))

ControlFrames == {"Pong", "Ping"}

PollStep ==
    /\ WsOpen
    /\ ws.woken
    /\ \E ro \in WriteOutcomes, fo \in WriteOutcomes, more \in BOOLEAN :
          ws' = poll_read(ws, ro, fo, more)

ReadOutcome ==
    PollStep /\ ws'.inbound # ws.inbound =>
        /\ \A i \in 1..(Len(Consumed) - 1) : Consumed[i] \in ControlFrames
        /\ Last(Consumed) \in {"Text", "Binary"} => ws'.result = "Data"
        /\ Last(Consumed) \in ControlFrames => ws'.result = "Pending"
        /\ Last(Consumed) \in {"Close", "End"} => ws'.result = "EOF"
        /\ Last(Consumed) = "ReadErr" => ws'.result = "Err" /\ ~ws'.wfailed

BytesOnlyFromPayloads ==
    PollStep /\ ws'.result = "Data" =>
        \/ ws.leftover
        \/ ws'.inbound # ws.inbound /\ Last(Consumed) \in {"Text", "Binary"}

C27_ReadsYieldPayloads == [][ReadOutcome /\ BytesOnlyFromPayloads]_vars

\* the frames were read up to a read error, which the reader got as an
\* error though no send had failed
C27_Witness ==
    /\ ws.result = "Err"
    /\ ~ws.wfailed
    /\ ws.inbound = <<>>
    /\ ws.framesLeft = 0

\* C28: the outer SSH client accepts an inbound channel and emits
\* Open(id) exactly when the channel type is client-ssh-session-stream;
\* a channel of any other type is refused, no event is emitted for it and
\* no client session is started for it.
OpenQueued(c) == \E i \in 1..Len(relay.rx) : relay.rx[i] = ChannelOp("Open", c, 0)

Refused(c) ==
    /\ ~relay.cli[c].opened
    /\ \A i \in 1..Len(relay.rx) : relay.rx[i].id # c
    /\ relay.cli[c].task = "none"
    /\ c \notin relay.channels

C28_OnlySessionStreamAccepted ==
    \A c \in Channels :
        relay.cli[c].ctype # "" =>
            /\ relay.cli[c].opened = (relay.cli[c].ctype = SessionStream)
            /\ relay.cli[c].opened => (OpenQueued(c) = (relay.cli[c].task = "none"))
            /\ ~relay.cli[c].opened => Refused(c)

C28_Witness ==
    \E c, o \in Channels :
        /\ relay.cli[c].ctype = "client-ssh-session-stream2"
        /\ Refused(c)
        /\ relay.cli[o].ctype = SessionStream
        /\ relay.cli[o].task = "running"
        /\ relay.rx = <<>>

\* C29: the client session started by Open(id) reads the payloads of the
\* Data(id, _) events in the order they were emitted, none being lost;
\* after Close(id) it reads every payload queued before the Close and
\* then observes the end of the stream; Data for an id without an open
\* channel is discarded and changes nothing.
ReadsInOrder ==
    \A c \in Channels :
        relay.cli[c].task \in {"running", "ended"} =>
            /\ IsPrefix(relay.cli[c].got \o relay.cli[c].incoming, relay.cli[c].sent)
            /\ c \in relay.channels =>
                 relay.cli[c].got \o relay.cli[c].incoming
                    \o QueuedData(relay.rx, c) = relay.cli[c].sent

EndAfterEverything ==
    \A c \in Channels :
        relay.cli[c].task = "ended" =>
            relay.cli[c].closed /\ relay.cli[c].got = relay.cli[c].sent

StrayDataDiscarded ==
    relay.rx # <<>> /\ relay'.rx = Tail(relay.rx) /\ Head(relay.rx).op = "Data"
        /\ Head(relay.rx).id \notin relay.channels
        => relay' = [relay EXCEPT !.rx = Tail(@)]

C29_ChannelDataThenEnd ==
    /\ []ReadsInOrder
    /\ []EndAfterEverything
    /\ [][StrayDataDiscarded]_vars
    /\ \A c \in Channels :
          (relay.cli[c].closed /\ relay.cli[c].task = "running")
              ~> (relay.cli[c].task \in {"ended", "failed"})

\* a session that has not authenticated has sent no request, knows no
\* port, is not in its main loop and has accepted no connection
NothingBeforeAuth ==
    \A s \in Sessions :
        ~sess[s].authed =>
            /\ \A p \in Ports : sess[s].reqs[p] = <<>>
            /\ sess[s].known_ports = EmptyMap
            /\ sess[s].pc \notin {"main", "pass"}
            /\ \A k \in 1..Len(conns) : conns[k].sess # s

ActsOnlyAfterAuth ==
    \A s \in Sessions :
        (sess'[s].reqs # sess[s].reqs \/ Len(sess'[s].cnx_rx) < Len(sess[s].cnx_rx))
            => sess[s].authed /\ sess[s].pc \in {"main", "pass"}

\* the task of a session that has not authenticated ends: during the
\* SSH handshake or while it waits for the signal
EndsBeforeAuth(s) ==
    /\ sess[s].pc \in {"handshake", "wait_auth"}
    /\ sess'[s].pc = "ended"

\* a task that ends before authentication returns Ok(()) and has issued
\* no request
EndsQuietlyBeforeAuth ==
    \A s \in Sessions :
        EndsBeforeAuth(s) =>
            /\ ~sess[s].authed
            /\ sess'[s].res = "Ok"
            /\ \A p \in Ports : sess'[s].reqs[p] = <<>>

\* a task that ends while it waits for the signal returns Ok(()), one
\* whose handshake failed returns the handshake's error; neither has
\* issued a request
EndsBeforeAuthOkOrHandshakeErr ==
    \A s \in Sessions :
        EndsBeforeAuth(s) =>
            /\ ~sess[s].authed
            /\ ~sess'[s].alive
            /\ sess'[s].res = IF sess[s].pc = "handshake" THEN "Err" ELSE "Ok"
            /\ \A p \in Ports : sess'[s].reqs[p] = <<>>

\* C30 as stated: a client session sends no tcpip-forward and no
\* cancel-tcpip-forward and routes no forwarded connection before its
\* authentication-succeeded signal has fired; when the session ends before
\* authentication completes, its task ends with Ok(()) and has issued no
\* forwarding request.
C30_NoForwardingBeforeAuth ==
    /\ []NothingBeforeAuth
    /\ [][ActsOnlyAfterAuth /\ EndsQuietlyBeforeAuth]_vars

\* C30 (as amended): a client session sends no tcpip-forward and no
\* cancel-tcpip-forward and routes no forwarded connection before its
\* authentication-succeeded signal has fired; a session that ends before
\* authentication completes has issued no forwarding request, and its
\* task ends with Ok(()) when the session closed after the SSH handshake
\* and with the handshake's error when the handshake itself failed.
C30_NoForwardingEndsOkOrHandshakeErr ==
    /\ []NothingBeforeAuth
    /\ [][ActsOnlyAfterAuth /\ EndsBeforeAuthOkOrHandshakeErr]_vars

C30_Witness ==
    \E s \in Sessions :
        /\ sess[s].pc = "ended"
        /\ ~sess[s].authed
        /\ sess[s].res = "Ok"
        /\ \A p \in Ports : sess[s].reqs[p] = <<>>
        /\ DOMAIN ports # {}
        /\ sess[s].seen # version

\* the requests a pass still has to send
PassTodo(s) == sess[s].pass.fwd \cup sess[s].pass.cancel

\* a pass whose requests fail goes on: a step of a task inside a pass
\* either leaves the pass as it is, or takes one port off its list and
\* stays in the pass, or takes the last port off, adopts the map the pass
\* read and is back in the loop; a live session has then been sent a
\* request for every port that needed one
FailedPassGoesOn ==
    \A s \in Sessions :
        InPass(s) =>
            \/ sess'[s].pc = "pass" /\ sess'[s].pass = sess[s].pass
            \/ /\ sess'[s].pc = "pass"
               /\ \E p \in PassTodo(s) :
                     /\ sess'[s].pass.fwd \cup sess'[s].pass.cancel = PassTodo(s) \ {p}
                     /\ PassTodo(s) # {p}
               /\ sess'[s].pass.new_ports = sess[s].pass.new_ports
               /\ sess'[s].known_ports = sess[s].known_ports
            \/ /\ sess'[s].pc = "main"
               /\ Cardinality(PassTodo(s)) = 1
               /\ sess'[s].known_ports = sess[s].pass.new_ports
               /\ sess[s].alive =>
                     \A p \in Ports :
                        sess'[s].reqs[p] =
                           IF p \in DOMAIN sess[s].pass.new_ports
                              /\ p \notin DOMAIN sess[s].known_ports
                           THEN Append(sess[s].pass.before[p], "F")
                           ELSE IF p \in DOMAIN sess[s].known_ports
                                   /\ p \notin DOMAIN sess[s].pass.new_ports
                           THEN Append(sess[s].pass.before[p], "C")
                           ELSE sess[s].pass.before[p]

\* a request for a port whose last request failed is sent only by a pass
\* that has sent none for it yet and that read a map in which the port is
\* not where known_ports has it: known_ports has adopted the port of a
\* failed forward and dropped that of a failed cancel, so the port has
\* left and re-entered the map, or entered and left it
FailedNotRetried ==
    \A s \in Sessions, p \in Ports :
        (p \in sess[s].refused /\ sess'[s].reqs[p] # sess[s].reqs[p])
            => /\ InPass(s)
               /\ sess[s].reqs[p] = sess[s].pass.before[p]
               /\ (p \in DOMAIN sess[s].pass.new_ports) # (p \in DOMAIN sess[s].known_ports)

\* C31: a failed tcpip-forward or cancel-tcpip-forward request of a
\* reconciliation pass is swallowed: the pass goes on with the remaining
\* ports, the session adopts the new map as known_ports and keeps running,
\* and the failed request is not retried on later passes unless the port
\* leaves and re-enters the map.
C31_FailedRequestSwallowed == [][FailedPassGoesOn /\ FailedNotRetried]_vars

\* a session whose forward for 8080 failed has run later passes that sent
\* the forward and the cancel for 9000 and nothing more for 8080
C31_Witness ==
    \E s \in Sessions :
        /\ AtSelect(s)
        /\ 8080 \in sess[s].refused
        /\ sess[s].reqs[8080] = <<"F">>
        /\ sess[s].reqs[9000] = <<"F", "C">>
        /\ 9000 \notin sess[s].refused
        /\ sess[s].seen = version
        /\ version = 3

\* a write is in flight exactly while the flag is set: the stored future
\* is then a real one that has been polled and has not returned, and a
\* call installs a future only when it found the flag clear
OneWriteInFlight ==
    /\ wr.is_write_fut_valid =>
          wr.write_fut.data # 0 /\ wr.write_fut.st = "pending"
    /\ wr.last.installed => ~wr.last.valid_before

\* poll_write returns Ready(Ok(len)) only when the write in flight has
\* been handed to the channel, and an error leaves no write in flight
ReadyAfterCompletion ==
    /\ (wr.last.op = "poll_write" /\ wr.result.kind = "Ok") =>
          /\ ~wr.is_write_fut_valid
          /\ wr.write_fut.st = "done"
          /\ wr.sent # <<>>
          /\ Last(wr.sent) = wr.write_fut.data
    /\ wr.result.kind = "Err" => ~wr.is_write_fut_valid

\* for a task that retries, the buffers sent are the accepted ones, each
\* once and in the order of the calls
AcceptedSentOnce ==
    wr.retrying =>
        /\ wr.sent = wr.accepted
        /\ \A i, j \in 1..Len(wr.sent) : i < j => wr.sent[i] < wr.sent[j]

\* the same for a task that retries and calls poll_flush, if at all, only
\* when none of its writes is unfinished
AcceptedSentOnceUnflushed ==
    (wr.retrying /\ ~wr.flushed_between) =>
        /\ wr.sent = wr.accepted
        /\ \A i, j \in 1..Len(wr.sent) : i < j => wr.sent[i] < wr.sent[j]

\* a task whose poll_flush between two retries found the write in flight
\* and returned Ready(Ok) has its buffer sent again by the retry: the
\* flush handed the buffer to the channel and cleared the flag, so the
\* repeated poll_write installs a new write of the same buffer
FlushBetweenSendsAgain ==
    (/\ wr' # wr
     /\ wr.retrying
     /\ wr'.last.op = "poll_write"
     /\ wr.last.op = "poll_flush"
     /\ wr.last.valid_before
     /\ wr.result.kind = "Ok"
     /\ wr.cur # 0
     /\ wr'.write_fut.data = wr.cur)
        => /\ wr'.last.installed
           /\ wr.sent # <<>> /\ Last(wr.sent) = wr.cur

\* a poll_write that finds no write in flight, as after a failed one,
\* installs a write of its own buffer
FreshWriteWhenIdle ==
    (/\ wr' # wr
     /\ wr'.last.op = "poll_write"
     /\ ~wr.is_write_fut_valid)
        => /\ wr'.last.installed
           /\ wr'.write_fut.data = IF wr'.cur # 0 THEN wr'.cur
                                   ELSE IF wr'.nextbuf # wr.nextbuf THEN wr.nextbuf
                                   ELSE wr.cur

\* C32 as stated: on the channel write adapters at most one write is in flight:
\* poll_write starts an SSH data write only when none is pending, returns
\* Ready(Ok(len)) only after that write completed, for a task that repeats
\* poll_write with the same buffer until it is Ready every accepted buffer
\* is sent exactly once and in call order, and a failed write clears the
\* flag so that the next poll_write starts a fresh write.
C32_OneWriteInFlight ==
    /\ [](OneWriteInFlight /\ ReadyAfterCompletion /\ AcceptedSentOnce)
    /\ [][FreshWriteWhenIdle]_vars

\* C32 (as amended): at most one write is in flight, poll_write starts a
\* write only when none is pending and returns Ready(Ok(len)) only after
\* that write completed, a failed write clears the flag so that the next
\* poll_write starts a fresh write, and for a task that repeats poll_write
\* with the same buffer until it is Ready and does not call poll_flush
\* between the retries every accepted buffer is sent exactly once and in
\* call order; a poll_flush between the retries that completes the write
\* makes the retry send the buffer a second time.
C32_OneWriteInFlightRetriedUnflushed ==
    /\ [](OneWriteInFlight /\ ReadyAfterCompletion /\ AcceptedSentOnceUnflushed)
    /\ [][FreshWriteWhenIdle /\ FlushBetweenSendsAgain]_vars

\* a ForwardedPortWriter whose first buffer was accepted and whose second
\* write is in flight, its poll_write having returned Pending
C32_Witness ==
    /\ wr.adapter = "ForwardedPortWriter"
    /\ wr.retrying
    /\ ~wr.flushed_between
    /\ wr.accepted = <<1>>
    /\ wr.cur = 2
    /\ wr.is_write_fut_valid
    /\ wr.write_fut = [data |-> 2, st |-> "pending"]

\* a step in which the task calls poll_shutdown
ShutdownStep == wr' # wr /\ wr'.last.op = "poll_shutdown"

\* poll_shutdown returns Ready(Ok(())) and leaves the adapter, the write
\* in flight and the read half as they were
ShutdownChangesNothing ==
    ShutdownStep =>
        /\ wr'.result = [kind |-> "Ok", n |-> 0]
        /\ wr'.is_write_fut_valid = wr.is_write_fut_valid
        /\ wr'.write_fut = wr.write_fut
        /\ wr'.sent = wr.sent
        /\ wr'.eof_sent = wr.eof_sent
        /\ wr'.cur = wr.cur
        /\ rd' = rd

\* after a poll_shutdown a read that finds data in the read buffer or in
\* the queue still returns bytes
ReadsAfterShutdown ==
    (/\ wr.read_at_shutdown >= 0
     /\ rd' # rd
     /\ rd'.fed = rd.fed
     /\ (rd.readbuf.some \/ rd.receiver # <<>>))
        => Len(rd'.out) > Len(rd.out)

\* C33: poll_shutdown on AsyncRWChannel, ForwardedPortWriter and
\* ForwardedPortRW returns Ready(Ok) at once and changes nothing: no SSH
\* EOF or close is sent, a pending write is neither completed nor
\* cancelled, and the read half keeps delivering data.
C33_ShutdownIsNoOp ==
    /\ []~wr.eof_sent
    /\ [][ShutdownChangesNothing /\ ReadsAfterShutdown]_vars

\* poll_shutdown was called with a write in flight, which is still in
\* flight, and the read half has delivered bytes since
C33_Witness ==
    /\ wr.last.op = "poll_shutdown"
    /\ wr.last.valid_before
    /\ wr.is_write_fut_valid
    /\ wr.write_fut.st = "pending"
    /\ wr.read_at_shutdown >= 0
    /\ Len(rd.out) > wr.read_at_shutdown

\* a read that pulls an empty chunk from the queue answers Pending
EmptyChunkIsPending ==
    (/\ ~rd.readbuf.some
     /\ rd.receiver # <<>>
     /\ Head(rd.receiver) = <<>>
     /\ rd'.fed = rd.fed
     /\ rd'.receiver = Tail(rd.receiver))
        => rd'.result = "Pending"

\* every byte that has arrived upstream is returned by a read in the end
ArrivedBytesAreRead ==
    \A n \in 1..(MaxFeeds * MaxChunkLen) :
        [](Len(rd.fed) >= n => <>(Len(rd.out) >= n))

\* C34: a chunked byte reader that pulls an empty chunk reports that no
\* data is available yet, never EOF, and stays live: the next non-empty
\* chunk that arrives upstream is eventually returned by a read although
\* the reader task gets no wake-up but those the reader registered.
C34_EmptyChunkStaysLive ==
    /\ [][EmptyChunkIsPending]_vars
    /\ ArrivedBytesAreRead

\* C35: every EOF that the WebSocket adapter signals because of the
\* liveness timer is preceded by a ping that was flushed after the most
\* recent inbound frame: it never declares the transport dead without
\* having probed it after the last sign of life, in particular not when
\* text or binary data arrived while it was waiting for a pong.
C35_EofOnlyAfterProbe == ws.timed_out => ws.probed

\* a request log that alternates, beginning with a forward
Alternates(log) ==
    \A i \in 1..Len(log) : log[i] = IF i % 2 = 1 THEN "F" ELSE "C"

\* C36: on every client session and for every port p the tcpip-forward and
\* cancel-tcpip-forward requests for p strictly alternate, starting with a
\* forward: no second forward without a cancel in between and no cancel
\* unless the last request for p was a forward, for every interleaving of
\* add_port_raw, remove_port and coalesced change notifications.
C36_RequestsAlternate ==
    \A s \in Sessions, p \in Ports : Alternates(sess[s].reqs[p])

\* a session that sent forward, cancel and forward again for a port that
\* was added, removed and added back, each change seen in a pass of its own
C36_Witness ==
    \E s \in Sessions, p \in Ports :
        /\ sess[s].reqs[p] = <<"F", "C", "F">>
        /\ InMainLoop(s)
        /\ sess[s].seen = version

\* connection k was accepted and its ForwardedPortConnection was let go
\* without having been put on a per-port queue
NeverDelivered(k) == conns[k].st = "dropped" /\ conns[k].via = 0

\* the host has called close on the channel of connection k, or the
\* client session that carries it has ended
ClosedByHost(k) == k \in fwd.closed \/ ~sess[conns[k].sess].alive

\* C37: every forwarded-tcpip channel that a client session accepts is
\* either delivered as a ForwardedPortConnection to the per-port receiver
\* of its target port or closed by the host; no accepted channel is left
\* open with nobody reading it, in particular not when the target port is
\* absent from known_ports or the per-port receiver was dropped.
C37_AcceptedDeliveredOrClosed ==
    \A k \in 1..Len(conns) : NeverDelivered(k) => ClosedByHost(k)

\* ---------------------------------------------------------------------
\* C38

\* the pump task of connection k ran and has stopped: the connection was
\* taken from its queue by a forwarder, and the task dropped it
PumpStopped(k) ==
    /\ k \in 1..Len(conns)
    /\ conns[k].via # 0
    /\ conns[k].st = "dropped"

\* C38: when the pump of a forwarded connection stops, the channel of the
\* connection is closed toward the remote client: a connection whose pump
\* has stopped is eventually one the host has closed.
C38_StoppedPumpClosesChannel ==
    \A k \in 1..MaxConns : PumpStopped(k) ~> (k \in fwd.closed)

\* ---------------------------------------------------------------------
\* C39

\* the data callback of session s is parked on the full inbound queue of
\* connection k, whose consumer does not call recv()
StalledOn(s, k) ==
    /\ k \in 1..Len(conns)
    /\ conns[k].sess = s
    /\ sess[s].waiting = conns[k].channel
    /\ Len(conns[k].inq) = QueueCap

\* data the client sends on another channel of the session, whose
\* connection has room and a live receiver, is taken by the session
OthersAreServed ==
    \A s \in Sessions, k, o \in 1..Len(conns) :
        (/\ StalledOn(s, k)
         /\ o # k
         /\ conns[o].sess = s
         /\ DataTarget(sess[s].channel_senders, conns[o].channel) = o
         /\ ReceiverAlive(o)
         /\ Len(conns[o].inq) < QueueCap
         /\ dataLeft > 0)
        => ENABLED data(s, conns[o].channel)

\* a forwarded-tcpip channel the client opens is handled by the session
OpensAreServed ==
    \A s \in Sessions, k \in 1..Len(conns) :
        (StalledOn(s, k) /\ connsLeft > 0)
        => ENABLED (\E p \in Ports : channel_open_forwarded_tcpip(s, p))

QueueIsBounded == \A k \in 1..Len(conns) : Len(conns[k].inq) <= QueueCap

\* every chunk a data callback sent for a connection with a live receiver
\* is one its consumer took or one still in the queue, in order
NoChunkDropped ==
    \A k \in 1..Len(conns) :
        ReceiverAlive(k) => conns[k].cb = conns[k].got \o conns[k].inq

\* C39: within one client session, a connection whose inbound queue is
\* full because its consumer does not call recv() stops neither the
\* delivery of data to the session's other connections nor the handling
\* of new forwarded-tcpip channel opens; a queue never holds more than 10
\* chunks and no chunk is dropped while its receiver is alive.
C39_FullQueueStallsNoOther ==
    /\ OthersAreServed
    /\ OpensAreServed
    /\ QueueIsBounded
    /\ NoChunkDropped

\* ---------------------------------------------------------------------
\* C40

\* no call polled the placeholder or a write future that had returned
PlaceholderNeverPolled ==
    /\ ~wr.panicked
    /\ wr.last.polled \in {"none", "write"}

\* a call that polled the stored future found the flag set or set it
PolledOnlyWhileValid ==
    wr.last.polled # "none" => (wr.last.valid_before \/ wr.last.installed)

\* the flag is set only while the stored future is a write that a
\* poll_write installed and that has not returned
ValidOnlyDuringWrite ==
    wr.is_write_fut_valid => (wr.write_fut.data # 0 /\ wr.write_fut.st # "done")

\* poll_read never ran into the SendingPing arm of its timer match
SendingPingArmNotEntered == ~ws.panicked

\* C40: the placeholder write future is never polled: the stored future
\* is polled only while is_write_fut_valid is true, which is so only from
\* the poll_write that installed a real write to the return of that
\* write, whatever poll_write, poll_flush and poll_shutdown calls are
\* made; and the WebSocket reader never enters its unreachable arm.
C40_PlaceholderNeverPolled ==
    /\ PlaceholderNeverPolled
    /\ PolledOnlyWhileValid
    /\ ValidOnlyDuringWrite
    /\ SendingPingArmNotEntered

\* poll_flush was called while the placeholder was the stored future,
\* after a poll_shutdown, and returned Ready(Ok) without polling it
C40_Witness ==
    /\ wr.adapter = "ForwardedPortWriter"
    /\ wr.last.op = "poll_flush"
    /\ wr.write_fut = PlaceholderFut
    /\ wr.read_at_shutdown # -1
    /\ wr.result.kind = "Ok"
    /\ wr.last.polled = "none"

====
